---- MODULE Spec2Model ----
(***************************************************************************)
(* Verification model of the motor test-rig efficiency pipeline:           *)
(*   src/unified_calculator.py  (calculate_simple_efficiency,              *)
(*       calculate_unified_efficiencies, ExperimentConfig,                  *)
(*       BatchExperimentAnalyzer)                                           *)
(*   src/factor_calculator.py   (calculate_single_efficiency,              *)
(*       calculate_factor_experiment, compare_dual_motor_efficiencies)      *)
(*                                                                         *)
(* Python floats are modelled by exact rationals [n, d] in lowest terms,   *)
(* and x ** 0.5 by an exact root [q, k] (the real number q^(1/k)), so that *)
(* equalities between computed quantities are decided exactly.             *)
(***************************************************************************)
EXTENDS Integers, Sequences, FiniteSets, TLC

VARIABLES
    \* ---- dual-polarity combiner (SpecComb)
    zheng_result, fan_result, combined,
    \* ---- ExperimentConfig object and its persisted record (Spec)
    exploration_type, fixed_params, variable_params, common_params,
    is_factor_exploration_mode, record, in_sync, ret,
    \* ---- one acquisition file, its calibration, and the computation run on it
    \*      (SpecRun)
    table, calib, out,
    \* ---- BatchExperimentAnalyzer.run_batch_experiments (SpecBatch): where
    \*      the call stands, its loop variable i, self.results, its
    \*      fan_file_pattern argument and the files os.path.exists was asked
    \*      about, level by level; what generate_comparison_table did when
    \*      called after the batch
    pc, loop_i, results, fan_file_pattern, files, comparison_df,
    \* ---- factor_calculator.calculate_factor_experiment (SpecFactor): its
    \*      experiment_data argument and what it returned
    experiment_data, factor_results

combVars == <<zheng_result, fan_result, combined>>
cfgVars  == <<exploration_type, fixed_params, variable_params, common_params,
              is_factor_exploration_mode, record, in_sync, ret>>
runVars  == <<table, calib, out>>
batchVars == <<pc, loop_i, results, fan_file_pattern, files,
               comparison_df>>
factorVars == <<experiment_data, factor_results>>
vars     == <<combVars, cfgVars, runVars, batchVars, factorVars>>
\* What an operation on one component leaves alone: the other components.
notComb  == <<cfgVars, runVars, batchVars, factorVars>>
notCfg   == <<combVars, runVars, batchVars, factorVars>>
notRun   == <<combVars, cfgVars, batchVars, factorVars>>
notBatch == <<combVars, runVars, factorVars>>
notFactor == <<combVars, cfgVars, runVars, batchVars>>

\* Python's None: a record no result or parameter mapping is equal to.
None == [none |-> TRUE]
\* An operation that was not called (since the batch started, for
\* generate_comparison_table).
NotCalled == [not_called |-> TRUE]

(***************************************************************************)
(* Exact arithmetic standing for the float arithmetic of the code.         *)
(***************************************************************************)
Abs(x) == IF x < 0 THEN -x ELSE x

RECURSIVE GCD(_, _)
GCD(a, b) == IF b = 0 THEN a ELSE GCD(b, a % b)

\* The rational n/d (d # 0) in lowest terms with a positive denominator.
Rat(n, d) ==
    LET g == GCD(Abs(n), Abs(d))
        s == IF d < 0 THEN -1 ELSE 1
    IN  [n |-> (s * n) \div g, d |-> (s * d) \div g]

R(n) == [n |-> n, d |-> 1]
RZero == R(0)

RAdd(x, y) == Rat(x.n * y.d + y.n * x.d, x.d * y.d)
RSub(x, y) == Rat(x.n * y.d - y.n * x.d, x.d * y.d)
\* x * y, the common factors cancelled before the products are taken.
RMul(x, y) ==
    LET g1 == GCD(Abs(x.n), y.d)
        g2 == GCD(Abs(y.n), x.d)
    IN  Rat((x.n \div g1) * (y.n \div g2), (x.d \div g2) * (y.d \div g1))
\* x / y for y # 0 (the code guards every scalar division by "> 0").
RDiv(x, y) == Rat(x.n * y.d, x.d * y.n)
RLt(x, y)  == x.n * y.d < y.n * x.d
RLe(x, y)  == x.n * y.d <= y.n * x.d
RGt(x, y)  == RLt(y, x)
RGe(x, y)  == RLe(y, x)

Max0_noclamp(x) == x

\* Python's max(0, x).
Max0(x) == IF RGt(x, RZero) THEN x ELSE RZero

\* floor(sqrt(n)) for n >= 0, by bisection on lo <= sqrt(n) < hi.
RECURSIVE ISqrtIn(_, _, _)
ISqrtIn(n, lo, hi) ==
    IF hi - lo <= 1 THEN lo
    ELSE LET mid == (lo + hi) \div 2
         IN  IF mid * mid <= n THEN ISqrtIn(n, mid, hi) ELSE ISqrtIn(n, lo, mid)

ISqrt(n) == ISqrtIn(n, 0, IF n < 46340 THEN n + 1 ELSE 46341)

IsSquare(n) == ISqrt(n) * ISqrt(n) = n

\* The real number q^(1/k), q a rational >= 0 and k in {1, 2, 4}, written with
\* the least k: sqrt(4/9) is [q |-> 2/3, k |-> 1].
RECURSIVE Root(_, _)
Root(q, k) ==
    IF k > 1 /\ IsSquare(q.n) /\ IsSquare(q.d)
    THEN Root([n |-> ISqrt(q.n), d |-> ISqrt(q.d)], k \div 2)
    ELSE [q |-> q, k |-> k]

\* x ** 0.5 for a rational x >= 0.
Pow05(x) == Root(x, 2)

\* A real result that happens to be the rational x.
Real(x) == [q |-> x, k |-> 1]

(***************************************************************************)
(* Dual-polarity combiner.                                                 *)
(***************************************************************************)
\* Bounds of the efficiencies fed to the combiner: n/d, -1 <= n <= MaxEffNum,
\* 1 <= d <= MaxEffDen.
MaxEffNum == 4
MaxEffDen == 2

EffValues == {Rat(n, d) : n \in -1..MaxEffNum, d \in 1..MaxEffDen}

\* What a single-run computation hands to the combiner: None or a result
\* carrying an efficiency.
SingleResults == {None} \cup {[efficiency |-> e] : e \in EffValues}

combine_nosqrt(eff_forward, eff_reverse) ==
    Real(RMul(Max0(eff_forward), Max0(eff_reverse)))

\* combined = (max(0, zheng) * max(0, fan)) ** 0.5
combine(eff_forward, eff_reverse) ==
    Pow05(RMul(Max0(eff_forward), Max0(eff_reverse)))

\* compare_dual_motor_efficiencies, from the two single-run results on.
compare_dual_motor_efficiencies(zr, fr) ==
    IF zr # None /\ fr # None
    THEN combine(zr.efficiency, fr.efficiency)
    ELSE Real(RZero)

CombInit ==
    /\ zheng_result \in SingleResults
    /\ fan_result \in SingleResults
    /\ combined = None

\* calculate_unified_efficiencies: the verification finished efficiency of two
\* per-polarity efficiencies.
CombineVerification ==
    /\ combined = None
    /\ zheng_result # None /\ fan_result # None
    /\ combined' = [by |-> "unified",
                    value |-> combine(zheng_result.efficiency, fan_result.efficiency)]
    /\ UNCHANGED <<zheng_result, fan_result, notComb>>

CompareDual ==
    /\ combined = None
    /\ combined' = [by |-> "compare_dual",
                    value |-> compare_dual_motor_efficiencies(zheng_result, fan_result)]
    /\ UNCHANGED <<zheng_result, fan_result, notComb>>

\* The next pair of runs is handed over.
CombNext_Reset ==
    /\ combined # None
    /\ combined' = None
    /\ zheng_result' \in SingleResults
    /\ fan_result' \in SingleResults
    /\ UNCHANGED notComb

(***************************************************************************)
(* ExperimentConfig.  A parameter mapping (a Python dict with string keys) *)
(* is a function from a set of key names to numbers; the float values the  *)
(* configuration holds are whole numbers here.                             *)
(***************************************************************************)
EmptyDict == [k \in {} |-> 0]

\* dict.update / dict.copy().update: the keys of both, e's value on collision.
Update(d, e) ==
    [k \in (DOMAIN d) \cup (DOMAIN e) |-> IF k \in DOMAIN e THEN e[k] ELSE d[k]]

\* A Python str (None is the other value exploration_type takes).
PyStr(s) == [str |-> s]
\* An optional argument that was given.
Some(x) == [v |-> x]

\* The largest number of experiment levels a caller configures.
MaxLevels == 3

\* The per-level lists a caller passes: the first n levels of these sweeps.
VoltageSweep ==
    << [drive_v |-> 6, power_input |-> 5],
       [drive_v |-> 9, power_input |-> 8],
       [drive_v |-> 12, power_input |-> 12],
       [drive_v |-> 15, power_input |-> 18],
       [drive_v |-> 18, power_input |-> 25] >>

ResistanceSweep ==
    << [r_load |-> 5, power_input |-> 10],
       [r_load |-> 10, power_input |-> 12],
       [r_load |-> 15, power_input |-> 14],
       [r_load |-> 20, power_input |-> 16],
       [r_load |-> 25, power_input |-> 18] >>

DistanceSweep == << 2, 4, 6, 8, 10 >>

\* Levels a caller passes that name the input power only.
PowerSweep ==
    << [power_input |-> 5], [power_input |-> 8], [power_input |-> 12],
       [power_input |-> 18], [power_input |-> 25] >>

Prefixes(sweep) == {SubSeq(sweep, 1, n) : n \in 0..MaxLevels}

\* r_load_fixed / drive_v_fixed as the callers pass them.
RLoadFixedArgs == {None, Some(10)}
DriveVFixedArgs == {Some(12)}
\* The values a caller writes into common_params['r_load'].
CommonRLoadArgs == {7}

\* ExperimentConfig.__init__
ConfigInit ==
    /\ exploration_type = None
    /\ fixed_params = EmptyDict
    /\ variable_params = << >>
    /\ common_params = [reference_v |-> 1, initial_v |-> 0, sampling_freq |-> 87500]
    /\ is_factor_exploration_mode \in BOOLEAN
    /\ record = None
    /\ in_sync = FALSE
    /\ ret = [op |-> "__init__", arg |-> 0, raised |-> "", value |-> None]

Returned(op, arg, raised, value) ==
    [op |-> op, arg |-> arg, raised |-> raised, value |-> value]

configure_voltage_exploration(voltage_levels, r_load_fixed) ==
    /\ exploration_type' = PyStr("voltage")
    /\ fixed_params' = IF r_load_fixed # None
                       THEN Update(fixed_params, [r_load |-> r_load_fixed.v])
                       ELSE fixed_params
    /\ variable_params' = voltage_levels
    /\ in_sync' = FALSE
    /\ ret' = Returned("configure_voltage_exploration", r_load_fixed, "", None)
    /\ UNCHANGED <<common_params, is_factor_exploration_mode, record, notCfg>>

configure_resistance_exploration(resistance_power_levels, drive_v_fixed) ==
    /\ exploration_type' = PyStr("resistance")
    /\ fixed_params' = [drive_v |-> drive_v_fixed.v]
    /\ variable_params' = resistance_power_levels
    /\ in_sync' = FALSE
    /\ ret' = Returned("configure_resistance_exploration", drive_v_fixed, "", None)
    /\ UNCHANGED <<common_params, is_factor_exploration_mode, record, notCfg>>

configure_magnetic_distance_exploration(distance_levels, drive_v_fixed, r_load_fixed) ==
    /\ exploration_type' = PyStr("magnetic_distance")
    /\ fixed_params' = IF r_load_fixed # None
                       THEN Update([drive_v |-> drive_v_fixed.v], [r_load |-> r_load_fixed.v])
                       ELSE [drive_v |-> drive_v_fixed.v]
    /\ variable_params' =
           [i \in 1..Len(distance_levels) |->
               [magnetic_distance |-> distance_levels[i], power_input |-> 10]]
    /\ in_sync' = FALSE
    /\ ret' = Returned("configure_magnetic_distance_exploration", r_load_fixed, "", None)
    /\ UNCHANGED <<common_params, is_factor_exploration_mode, record, notCfg>>

\* The caller sets common_params['r_load'] (common_params are set independently
\* of the configure_* entry points).
SetCommon(r_load) ==
    /\ common_params' = Update(common_params, [r_load |-> r_load])
    /\ in_sync' = FALSE
    /\ ret' = Returned("common_params", 0, "", None)
    /\ UNCHANGED <<exploration_type, fixed_params, variable_params,
                   is_factor_exploration_mode, record, notCfg>>

\* list[index] of Python: a negative index counts from the end; IndexError
\* outside -len..len-1.
ListIndex(list, index) ==
    IF index >= Len(list) \/ index < -Len(list)
    THEN [raised |-> "IndexError", value |-> None]
    ELSE [raised |-> "",
          value |-> list[IF index < 0 THEN Len(list) + index + 1 ELSE index + 1]]

get_experiment_params_fixed_last(index) ==
    IF index >= Len(variable_params)
    THEN [raised |-> "IndexError", value |-> None]
    ELSE LET level == ListIndex(variable_params, index)
         IN  IF level.raised # "" THEN level
             ELSE [raised |-> "",
                   value |-> Update(Update(common_params, level.value), fixed_params)]

get_experiment_params_wrap(index) ==
    IF index > Len(variable_params)
    THEN [raised |-> "IndexError", value |-> None]
    ELSE LET level == ListIndex(variable_params,
                                IF Len(variable_params) > 0
                                THEN index % Len(variable_params) ELSE index)
         IN  IF level.raised # "" THEN level
             ELSE [raised |-> "",
                   value |-> Update(Update(common_params, fixed_params), level.value)]

\* ExperimentConfig.get_experiment_params: what it raises, or the mapping it
\* returns.
get_experiment_params(index) ==
    IF index >= Len(variable_params)
    THEN [raised |-> "IndexError", value |-> None]
    ELSE LET level == ListIndex(variable_params, index)
         IN  IF level.raised # "" THEN level
             ELSE [raised |-> "",
                   value |-> Update(Update(common_params, fixed_params), level.value)]

GetExperimentParams(index) ==
    /\ ret' = LET r == get_experiment_params(index)
              IN  Returned("get_experiment_params", index, r.raised, r.value)
    /\ UNCHANGED <<exploration_type, fixed_params, variable_params, common_params,
                   is_factor_exploration_mode, record, in_sync, notCfg>>

(***************************************************************************)
(* Persistence.  json.dump writes a number as its decimal text and a dict  *)
(* as an object; json.load parses them back.  A JSON value is a record     *)
(* tagged by its kind, a JSON text of a float a sequence of characters.    *)
(***************************************************************************)
DigitChar == << "0", "1", "2", "3", "4", "5", "6", "7", "8", "9" >>

RECURSIVE Digits(_)
Digits(n) ==
    IF n < 10 THEN << DigitChar[n + 1] >>
    ELSE Digits(n \div 10) \o << DigitChar[(n % 10) + 1] >>

\* float.__repr__ of a whole-number float: 87500.0, -3.0.
float_repr(x) ==
    (IF x < 0 THEN << "-" >> ELSE << >>) \o Digits(Abs(x)) \o << ".", "0" >>

DigitValue(c) == CHOOSE d \in 0..9 : DigitChar[d + 1] = c

RECURSIVE ParseDigits(_, _)
ParseDigits(text, acc) ==
    IF text = << >> \/ Head(text) = "." THEN acc
    ELSE ParseDigits(Tail(text), 10 * acc + DigitValue(Head(text)))

\* float() of the text of a whole-number float.
parse_float(text) ==
    IF Head(text) = "-" THEN -ParseDigits(Tail(text), 0) ELSE ParseDigits(text, 0)

JsonNull == [t |-> "null"]
JsonString(s) == [t |-> "string", s |-> s]
JsonNumber(x) == [t |-> "number", text |-> float_repr(x)]
JsonObject(d) == [t |-> "object", members |-> [k \in DOMAIN d |-> JsonNumber(d[k])]]
JsonArray(list) == [t |-> "array", items |-> [i \in 1..Len(list) |-> JsonObject(list[i])]]

FromJsonObject(j) == [k \in DOMAIN j.members |-> parse_float(j.members[k].text)]
FromJsonArray(j) == [i \in 1..Len(j.items) |-> FromJsonObject(j.items[i])]
FromJsonStringOrNull(j) == IF j.t = "null" THEN None ELSE PyStr(j.s)

RecordFields ==
    {"exploration_type", "fixed_params", "variable_params", "common_params", "timestamp"}

\* datetime.now().strftime(...) as the clock gives it.
Timestamps == {"2025-06-01 12:00:00"}

\* The record save_config writes.
config_data(timestamp) ==
    [exploration_type |-> IF exploration_type = None THEN JsonNull
                          ELSE JsonString(exploration_type.str),
     fixed_params     |-> JsonObject(fixed_params),
     variable_params  |-> JsonArray(variable_params),
     common_params    |-> JsonObject(common_params),
     timestamp        |-> JsonString(timestamp)]

save_config ==
    /\ \E ts \in Timestamps : record' = config_data(ts)
    /\ in_sync' = TRUE
    /\ ret' = Returned("save_config", 0, "", None)
    /\ UNCHANGED <<exploration_type, fixed_params, variable_params, common_params,
                   is_factor_exploration_mode, notCfg>>

\* The record without the members in missing.
Without(rec, missing) == [k \in (DOMAIN rec) \ missing |-> rec[k]]

load_config_lenient(data) ==
    IF {"exploration_type", "fixed_params", "variable_params"} \ (DOMAIN data) # {}
    THEN [raised |-> "KeyError", value |-> None]
    ELSE [raised |-> "",
          value |-> [exploration_type |-> FromJsonStringOrNull(data.exploration_type),
                     fixed_params     |-> FromJsonObject(data.fixed_params),
                     variable_params  |-> FromJsonArray(data.variable_params),
                     common_params    |->
                         IF "common_params" \in DOMAIN data
                         THEN FromJsonObject(data.common_params)
                         ELSE [reference_v |-> 1, initial_v |-> 0, sampling_freq |-> 87500],
                     is_factor_exploration_mode |-> FALSE]]

load_config_slip(data) ==
    IF {"exploration_type", "fixed_params", "variable_params", "common_params"}
           \ (DOMAIN data) # {}
    THEN [raised |-> "KeyError", value |-> None]
    ELSE [raised |-> "",
          value |-> [exploration_type |-> FromJsonStringOrNull(data.exploration_type),
                     fixed_params     |-> FromJsonObject(data.common_params),
                     variable_params  |-> FromJsonArray(data.variable_params),
                     common_params    |-> FromJsonObject(data.common_params),
                     is_factor_exploration_mode |-> FALSE]]

load_config_keeps_flag(data) ==
    IF {"exploration_type", "fixed_params", "variable_params", "common_params"}
           \ (DOMAIN data) # {}
    THEN [raised |-> "KeyError", value |-> None]
    ELSE [raised |-> "",
          value |-> [exploration_type |-> FromJsonStringOrNull(data.exploration_type),
                     fixed_params     |-> FromJsonObject(data.fixed_params),
                     variable_params  |-> FromJsonArray(data.variable_params),
                     common_params    |-> FromJsonObject(data.common_params),
                     is_factor_exploration_mode |-> is_factor_exploration_mode]]

\* ExperimentConfig.load_config on the parsed record data: cls() and the four
\* subscripted reads, each a KeyError when the member is absent.
load_config(data) ==
    IF {"exploration_type", "fixed_params", "variable_params", "common_params"}
           \ (DOMAIN data) # {}
    THEN [raised |-> "KeyError", value |-> None]
    ELSE [raised |-> "",
          value |-> [exploration_type |-> FromJsonStringOrNull(data.exploration_type),
                     fixed_params     |-> FromJsonObject(data.fixed_params),
                     variable_params  |-> FromJsonArray(data.variable_params),
                     common_params    |-> FromJsonObject(data.common_params),
                     is_factor_exploration_mode |-> FALSE]]

\* load_config of the file at filepath: the record last saved, or that record
\* with some of its members absent; no file at all is a FileNotFoundError.
LoadConfig(missing) ==
    /\ ret' = IF record = None
              THEN Returned("load_config", missing, "FileNotFoundError", None)
              ELSE LET r == load_config(Without(record, missing))
                   IN  Returned("load_config", missing, r.raised, r.value)
    /\ UNCHANGED <<exploration_type, fixed_params, variable_params, common_params,
                   is_factor_exploration_mode, record, in_sync, notCfg>>

Next ==
    \/ \E levels \in Prefixes(VoltageSweep), r \in RLoadFixedArgs :
           configure_voltage_exploration(levels, r)
    \/ \E levels \in Prefixes(ResistanceSweep), d \in DriveVFixedArgs :
           configure_resistance_exploration(levels, d)
    \/ \E levels \in Prefixes(DistanceSweep), d \in DriveVFixedArgs, r \in RLoadFixedArgs :
           configure_magnetic_distance_exploration(levels, d, r)
    \/ \E r \in CommonRLoadArgs : SetCommon(r)
    \/ \E index \in -1..(MaxLevels + 1) : GetExperimentParams(index)
    \/ save_config
    \/ \E missing \in SUBSET RecordFields : LoadConfig(missing)

(***************************************************************************)
(* Sample tables and series.  A table keeps its column count and, per row, *)
(* the raw cells of the columns the computations read: AIN2 (column 2),    *)
(* AIN6 (column 6) and AIN7 (column 7); the other channels read 0 V.  A    *)
(* raw cell is a number or a text that does not parse.                     *)
(***************************************************************************)
\* A path no file exists at: pd.read_csv raises FileNotFoundError on it.
Missing == [missing |-> TRUE]

Unparseable == [unparseable |-> TRUE]
NaN == [nan |-> TRUE]

Row(a2, a6, a7) == [ain2 |-> a2, ain6 |-> a6, ain7 |-> a7]
Table(ncols, rows) == [ncols |-> ncols, rows |-> rows]

Min(a, b) == IF a < b THEN a ELSE b

head_plus_one(df, points_to_process) ==
    IF points_to_process # None /\ points_to_process.v > 0
    THEN Table(df.ncols, SubSeq(df.rows, 1, Min(points_to_process.v + 1, Len(df.rows))))
    ELSE df

\* DataFrame.head(points_to_process) under the code's guard
\* "points_to_process is not None and points_to_process > 0".
head(df, points_to_process) ==
    IF points_to_process # None /\ points_to_process.v > 0
    THEN Table(df.ncols, SubSeq(df.rows, 1, Min(points_to_process.v, Len(df.rows))))
    ELSE df

\* DataFrame.empty
empty(df) == Len(df.rows) = 0 \/ df.ncols = 0

\* data_df.iloc[:, c]
iloc(df, c) ==
    [j \in 1..Len(df.rows) |->
        IF c = 2 THEN df.rows[j].ain2
        ELSE IF c = 6 THEN df.rows[j].ain6
        ELSE IF c = 7 THEN df.rows[j].ain7
        ELSE R(0)]

\* pd.to_numeric(column, errors='coerce')
to_numeric(column) ==
    [j \in 1..Len(column) |-> IF column[j] = Unparseable THEN NaN ELSE column[j]]

\* (output_v - initial_v) / reference_v, element by element; NaN stays NaN.
to_current(column_v, initial_v, reference_v) ==
    [j \in 1..Len(column_v) |->
        IF column_v[j] = NaN THEN NaN
        ELSE RDiv(RSub(column_v[j], initial_v), reference_v)]

\* np.arange(n) * time_once
arange_times(n, time_once) == [j \in 1..n |-> RMul(R(j - 1), time_once)]

\* The positions where the boolean mask holds, in increasing order.
RECURSIVE MaskIndices(_, _)
MaskIndices(mask, j) ==
    IF j > Len(mask) THEN << >>
    ELSE (IF mask[j] THEN << j >> ELSE << >>) \o MaskIndices(mask, j + 1)

\* array[mask]
masked(array, mask) ==
    LET idx == MaskIndices(mask, 1)
    IN  [k \in 1..Len(idx) |-> array[idx[k]]]

\* np.any(mask)
any(mask) == \E j \in 1..Len(mask) : mask[j]

RECURSIVE SumSeq(_)
SumSeq(y) == IF y = << >> THEN RZero ELSE RAdd(Head(y), SumSeq(Tail(y)))

RECURSIVE MaxSeq(_)
MaxSeq(y) ==
    IF Len(y) = 1 THEN y[1]
    ELSE LET m == MaxSeq(Tail(y)) IN IF RGt(y[1], m) THEN y[1] ELSE m

RECURSIVE MinSeq(_)
MinSeq(y) ==
    IF Len(y) = 1 THEN y[1]
    ELSE LET m == MinSeq(Tail(y)) IN IF RLt(y[1], m) THEN y[1] ELSE m

\* np.mean / np.max of a non-empty array.
mean(y) == RDiv(SumSeq(y), R(Len(y)))
max(y) == MaxSeq(y)

\* np.trapz(y, x=x): the sum of (x[k+1] - x[k]) * (y[k+1] + y[k]) / 2.
trapz(y, x) ==
    SumSeq([k \in 1..(Len(y) - 1) |->
               RMul(RSub(x[k + 1], x[k]), RDiv(RAdd(y[k + 1], y[k]), R(2)))])

\* current ** 2 * r_load, element by element.
load_power(current, r_load) ==
    [k \in 1..Len(current) |-> RMul(RMul(current[k], current[k]), r_load)]

efficiency_ratio_nonzero(output_energy, input_energy) ==
    IF input_energy # RZero THEN RDiv(output_energy, input_energy) ELSE RZero

\* output_energy / input_energy if input_energy > 0 else 0.0
efficiency_ratio(output_energy, input_energy) ==
    IF RGt(input_energy, RZero) THEN RDiv(output_energy, input_energy) ELSE RZero

(***************************************************************************)
(* calculate_simple_efficiency and calculate_single_efficiency.            *)
(***************************************************************************)
\* The verification method on the rows of data_df whose AIN2 is valid: the
\* locals of the code from output_v on.
verification_locals(data_df, cal) ==
    LET time_once == RDiv(R(1), cal.sampling_freq)
        time_array == arange_times(Len(data_df.rows), time_once)
        output_v == to_numeric(iloc(data_df, 2))
        output_i == to_current(output_v, cal.initial_v, cal.reference_v)
        valid_idx == [j \in 1..Len(output_i) |-> output_i[j] # NaN]
        output_i_cleaned == masked(output_i, valid_idx)
        time_cleaned == masked(time_array, valid_idx)
        output_power == load_power(output_i_cleaned, cal.r_load)
        output_energy == trapz(output_power, time_cleaned)
        input_duration == RMul(R(Len(time_cleaned)), time_once)
        input_energy == RMul(cal.power_input, input_duration)
    IN  [valid_idx |-> valid_idx,
         time_cleaned |-> time_cleaned,
         output_i_cleaned |-> output_i_cleaned,
         output_power |-> output_power,
         output_energy |-> output_energy,
         input_duration |-> input_duration,
         input_energy |-> input_energy,
         efficiency |-> efficiency_ratio(output_energy, input_energy)]

\* unified_calculator.calculate_simple_efficiency on the table the file holds.
calculate_simple_efficiency(data_df_full, cal, points_to_process) ==
    LET data_df == head(data_df_full, points_to_process)
        v == verification_locals(data_df, cal)
    IN  IF data_df_full = Missing THEN None
        ELSE IF empty(data_df) \/ data_df.ncols < 3 THEN None
        ELSE IF ~any(v.valid_idx) THEN None
        ELSE IF Len(v.output_i_cleaned) < 2 THEN None
        ELSE [efficiency |-> v.efficiency,
              avg_output_power |-> mean(v.output_power),
              max_output_power |-> max(v.output_power),
              output_energy |-> v.output_energy,
              input_energy |-> v.input_energy,
              duration |-> v.input_duration,
              plot_data |-> [time |-> v.time_cleaned,
                             current |-> v.output_i_cleaned,
                             power |-> v.output_power]]

calculate_single_efficiency_two_samples(data_df_full, cal, points_to_process) ==
    LET data_df == head(data_df_full, points_to_process)
        v == verification_locals(data_df, cal)
    IN  IF data_df_full = Missing THEN None
        ELSE IF empty(data_df) \/ data_df.ncols < 3 THEN None
        ELSE IF ~any(v.valid_idx) THEN None
        ELSE IF Len(v.output_i_cleaned) < 2 THEN None
        ELSE [efficiency |-> v.efficiency,
              avg_output_power |-> mean(v.output_power),
              max_output_power |-> max(v.output_power),
              avg_output_current |-> mean(v.output_i_cleaned),
              duration |-> v.input_duration,
              plot_data |-> [time |-> v.time_cleaned,
                             current |-> v.output_i_cleaned,
                             power |-> v.output_power]]

\* factor_calculator.calculate_single_efficiency on the table the file holds.
calculate_single_efficiency(data_df_full, cal, points_to_process) ==
    LET data_df == head(data_df_full, points_to_process)
        v == verification_locals(data_df, cal)
    IN  IF data_df_full = Missing THEN None
        ELSE IF empty(data_df) \/ data_df.ncols < 3 THEN None
        ELSE IF ~any(v.valid_idx) THEN None
        ELSE [efficiency |-> v.efficiency,
              avg_output_power |-> mean(v.output_power),
              max_output_power |-> max(v.output_power),
              avg_output_current |-> mean(v.output_i_cleaned),
              duration |-> v.input_duration,
              plot_data |-> [time |-> v.time_cleaned,
                             current |-> v.output_i_cleaned,
                             power |-> v.output_power]]

(***************************************************************************)
(* Reals that are roots of rationals: the products, quotients and square   *)
(* roots calculate_unified_efficiencies takes of its efficiencies.         *)
(***************************************************************************)
RECURSIVE RPow(_, _)
RPow(x, e) == IF e = 0 THEN R(1) ELSE RMul(x, RPow(x, e - 1))

Max2(a, b) == IF a > b THEN a ELSE b

\* x * y for reals x, y >= 0.
RootMul(x, y) ==
    LET K == Max2(x.k, y.k)
    IN  Root(RMul(RPow(x.q, K \div x.k), RPow(y.q, K \div y.k)), K)

RootSqrt_dropped(x) == x

\* x ** 0.5 for a real x >= 0.
RootSqrt(x) == Root(x.q, 2 * x.k)

AbsDiff_signed(x, y) ==
    IF x.k = 1 /\ y.k = 1
    THEN Real(RSub(x.q, y.q))
    ELSE [abs_of_difference |-> << x, y >>]

\* abs(x - y): a rational when x and y are, else kept as the expression.
AbsDiff(x, y) ==
    IF x.k = 1 /\ y.k = 1
    THEN Real([n |-> Abs(RSub(x.q, y.q).n), d |-> RSub(x.q, y.q).d])
    ELSE [abs_of_difference |-> << x, y >>]

(***************************************************************************)
(* calculate_unified_efficiencies.                                         *)
(***************************************************************************)
channel_names == << "AIN1", "AIN2", "AIN3", "AIN4", "AIN5", "AIN6", "AIN7", "AIN8" >>

NaNStats == [max |-> NaN, min |-> NaN, avg |-> NaN]

\* _calculate_column_stats
calculate_column_stats(column_data_series) ==
    LET numeric_data == to_numeric(column_data_series)
        notnull == masked(numeric_data,
                          [j \in 1..Len(numeric_data) |-> numeric_data[j] # NaN])
    IN  IF Len(numeric_data) = 0 \/ Len(notnull) = 0 THEN NaNStats
        ELSE [max |-> MaxSeq(notnull), min |-> MinSeq(notnull), avg |-> mean(notnull)]

\* The stats of the eight channels of a non-empty table.
channel_stats(data_df) ==
    [c \in {channel_names[i] : i \in 1..8} |->
        LET i == CHOOSE i \in 1..8 : channel_names[i] = c
        IN  IF data_df.ncols > i THEN calculate_column_stats(iloc(data_df, i))
            ELSE NaNStats]

EmptyArray == << >>

\* The zero-initialised entries of results.
DefaultVerification_with_stats ==
    [efficiency |-> Real(RZero), stats |-> [AIN1 |-> NaNStats],
     plot_data |-> [time |-> EmptyArray, current |-> EmptyArray, power |-> EmptyArray]]

DefaultVerification ==
    [efficiency |-> Real(RZero), stats |-> EmptyDict,
     plot_data |-> [time |-> EmptyArray, current |-> EmptyArray, power |-> EmptyArray]]

DefaultTheoretical ==
    [efficiency |-> Real(RZero), stats |-> EmptyDict,
     plot_data |-> [time |-> EmptyArray, output_current |-> EmptyArray,
                    input_current |-> EmptyArray, output_power |-> EmptyArray,
                    input_power |-> EmptyArray]]

\* The theoretical method on the rows of data_df whose AIN6 and AIN7 are both
\* valid: the locals of the code from output_v_theoretical on.
theoretical_locals(data_df, cal) ==
    LET time_once == RDiv(R(1), cal.sampling_freq)
        time_array == arange_times(Len(data_df.rows), time_once)
        output_i == to_current(to_numeric(iloc(data_df, 6)), cal.initial_v, cal.reference_v)
        input_i == to_current(to_numeric(iloc(data_df, 7)), cal.initial_v, cal.reference_v)
        valid_idx == [j \in 1..Len(output_i) |-> output_i[j] # NaN /\ input_i[j] # NaN]
        output_i_cleaned == masked(output_i, valid_idx)
        input_i_cleaned == masked(input_i, valid_idx)
        time_cleaned == masked(time_array, valid_idx)
        output_power == load_power(output_i_cleaned, cal.r_load)
        input_power == [k \in 1..Len(input_i_cleaned) |-> RMul(cal.drive_v, input_i_cleaned[k])]
        numerator == trapz(output_power, time_cleaned)
        denominator == trapz(input_power, time_cleaned)
    IN  [valid_idx |-> valid_idx,
         time_cleaned |-> time_cleaned,
         output_i_cleaned |-> output_i_cleaned,
         input_i_cleaned |-> input_i_cleaned,
         output_power |-> output_power,
         input_power |-> input_power,
         numerator |-> numerator,
         denominator |-> denominator,
         efficiency |-> efficiency_ratio(numerator, denominator)]

verification_entry_one_sample(data_df, cal, stats) ==
    LET v == verification_locals(data_df, cal)
        filled == data_df.ncols > 2 /\ any(v.valid_idx)
    IN  [efficiency |-> IF filled THEN Real(v.efficiency) ELSE Real(RZero),
         stats |-> stats,
         plot_data |-> IF filled
                       THEN [time |-> v.time_cleaned, current |-> v.output_i_cleaned,
                             power |-> v.output_power]
                       ELSE DefaultVerification.plot_data]

\* results["verification"][polarity] after the polarity's table was processed
\* (the code is the same for zheng and fan); stats are the channel statistics
\* the code stores in both the verification and the theoretical entry.
verification_entry(data_df, cal, stats) ==
    LET v == verification_locals(data_df, cal)
        filled == data_df.ncols > 2 /\ any(v.valid_idx) /\ Len(v.output_i_cleaned) >= 2
    IN  [efficiency |-> IF filled THEN Real(v.efficiency) ELSE Real(RZero),
         stats |-> stats,
         plot_data |-> IF filled
                       THEN [time |-> v.time_cleaned, current |-> v.output_i_cleaned,
                             power |-> v.output_power]
                       ELSE DefaultVerification.plot_data]

theoretical_entry_one_sample(data_df, cal, stats) ==
    LET t == theoretical_locals(data_df, cal)
        filled == data_df.ncols > 7 /\ any(t.valid_idx)
    IN  [efficiency |-> IF filled THEN Real(t.efficiency) ELSE Real(RZero),
         stats |-> stats,
         plot_data |-> IF filled
                       THEN [time |-> t.time_cleaned,
                             output_current |-> t.output_i_cleaned,
                             input_current |-> t.input_i_cleaned,
                             output_power |-> t.output_power,
                             input_power |-> t.input_power]
                       ELSE DefaultTheoretical.plot_data]

\* results["theoretical"][polarity] after the polarity's table was processed,
\* with the raw efficiency numerator / denominator.
theoretical_entry(data_df, cal, stats) ==
    LET t == theoretical_locals(data_df, cal)
        filled == data_df.ncols > 7 /\ any(t.valid_idx) /\ Len(t.output_i_cleaned) >= 2
    IN  [efficiency |-> IF filled THEN Real(t.efficiency) ELSE Real(RZero),
         stats |-> stats,
         plot_data |-> IF filled
                       THEN [time |-> t.time_cleaned,
                             output_current |-> t.output_i_cleaned,
                             input_current |-> t.input_i_cleaned,
                             output_power |-> t.output_power,
                             input_power |-> t.input_power]
                       ELSE DefaultTheoretical.plot_data]

\* max(0, x) of a real.
RootMax0(x) == IF x.k = 1 THEN Real(Max0(x.q)) ELSE x

\* (max(0, raw)) ** 0.5 * 100
theo_processed(raw) == RootMul(RootSqrt(RootMax0(raw)), Real(R(100)))

\* The combination, rescaling and comparison that end the function.
finish_results(ver_zheng, ver_fan, theo_zheng, theo_fan) ==
    LET ver_finished == combine(ver_zheng.efficiency.q, ver_fan.efficiency.q)
        theo_zheng_processed == theo_processed(theo_zheng.efficiency)
        theo_fan_processed == theo_processed(theo_fan.efficiency)
        theo_finished ==
            RootSqrt(RootMul(theo_zheng_processed,
                             RootMul(theo_fan_processed, Real(Rat(1, 10000)))))
        theo_zheng_eff == RootMul(theo_zheng_processed, Real(Rat(1, 100)))
        theo_fan_eff == RootMul(theo_fan_processed, Real(Rat(1, 100)))
    IN  [verification |->
             [zheng |-> ver_zheng, fan |-> ver_fan, finished_efficiency |-> ver_finished],
         theoretical |->
             [zheng |-> [theo_zheng EXCEPT !.efficiency = theo_zheng_eff],
              fan |-> [theo_fan EXCEPT !.efficiency = theo_fan_eff],
              finished_efficiency |-> theo_finished],
         comparison |->
             [zheng_diff |-> AbsDiff(theo_zheng_eff, ver_zheng.efficiency),
              fan_diff |-> AbsDiff(theo_fan_eff, ver_fan.efficiency),
              finished_diff |-> AbsDiff(theo_finished, ver_finished)]]

\* calculate_unified_efficiencies on the tables the two files hold.
calculate_unified_efficiencies(data_zheng_df_full, data_fan_df_full, cal, points_to_process_zheng, points_to_process_fan) ==
    LET data_zheng_df == head(data_zheng_df_full, points_to_process_zheng)
        data_fan_df == head(data_fan_df_full, points_to_process_fan)
        zheng_stats == channel_stats(data_zheng_df)
        fan_stats == channel_stats(data_fan_df)
    IN  IF data_zheng_df_full = Missing THEN None
        ELSE IF empty(data_zheng_df) THEN None
        ELSE IF data_fan_df_full = Missing THEN None
        ELSE finish_results(
                 verification_entry(data_zheng_df, cal, zheng_stats),
                 IF empty(data_fan_df) THEN DefaultVerification
                 ELSE verification_entry(data_fan_df, cal, fan_stats),
                 theoretical_entry(data_zheng_df, cal, zheng_stats),
                 IF empty(data_fan_df) THEN DefaultTheoretical
                 ELSE theoretical_entry(data_fan_df, cal, fan_stats))

(***************************************************************************)
(* Single runs: a file's table, a calibration, and one of the three        *)
(* computations applied to it.                                             *)
(***************************************************************************)
\* The largest number of rows of a table (the scenario table apart).
MaxRows == 3

\* Raw AIN2 cells of a three-column table, and the rows of an eight-column one.
Ain2Cells == {Unparseable, R(1), R(3)}
Rows2 == {Row(Unparseable, Unparseable, Unparseable)}
Rows3 == {Row(a2, Unparseable, Unparseable) : a2 \in Ain2Cells}
Rows8 == {Row(R(3), R(3), R(3)), Row(R(0), R(3), R(0)), Row(R(1), R(0), R(3)),
          Row(Unparseable, R(3), R(3)), Row(R(3), R(3), Unparseable)}

TablesOf(ncols, rowset) ==
    {Table(ncols, rows) : rows \in UNION {[1..n -> rowset] : n \in 0..MaxRows}}

\* Ten rows of a constant AIN2 voltage.
ScenarioTable == Table(3, [j \in 1..10 |-> Row(R(1), Unparseable, Unparseable)])

Tables == TablesOf(2, Rows2) \cup TablesOf(3, Rows3) \cup TablesOf(8, Rows8)
              \cup {ScenarioTable}

\* The reverse-run files a unified computation is given besides the file itself.
FanTables ==
    {Table(8, << >>),
     Table(8, << Row(R(3), R(3), R(3)), Row(R(1), R(0), R(3)) >>),
     Table(8, << Row(R(0), R(3), R(0)), Row(R(0), R(3), R(0)) >>)}

Calibration(reference_v, initial_v, r_load, drive_v, power_input, sampling_freq) ==
    [reference_v |-> R(reference_v), initial_v |-> R(initial_v), r_load |-> R(r_load),
     drive_v |-> R(drive_v), power_input |-> R(power_input),
     sampling_freq |-> R(sampling_freq)]

\* Calibrations of well-formed runs: r_load > 0, sampling_freq > 0,
\* reference_v # 0.
Calibrations ==
    {Calibration(1, 0, 2, 12, 1, 100),
     Calibration(2, 1, 1, 3, 0, 1),
     Calibration(2, 1, 3, 3, -2, 4)}

\* points_to_process as callers pass it.
PointsArgs == {None} \cup {Some(n) : n \in 0..MaxRows}

RunInit ==
    /\ table \in Tables \cup {Missing}
    /\ calib \in Calibrations
    /\ out = None

RunIdle ==
    /\ table = Table(0, << >>)
    /\ calib = Calibration(1, 0, 1, 0, 0, 1)
    /\ out = None

Computed(fn, points, fan, result) ==
    [fn |-> fn, points |-> points, fan |-> fan, result |-> result]

CalculateSimple(points_to_process) ==
    /\ out = None
    /\ out' = Computed("calculate_simple_efficiency", points_to_process, None,
                       calculate_simple_efficiency(table, calib, points_to_process))
    /\ UNCHANGED <<table, calib, notRun>>

CalculateSingle(points_to_process) ==
    /\ out = None
    /\ out' = Computed("calculate_single_efficiency", points_to_process, None,
                       calculate_single_efficiency(table, calib, points_to_process))
    /\ UNCHANGED <<table, calib, notRun>>

\* The file is the forward run; the reverse run is the same file (factor
\* exploration) or another one; both are cut to the same number of points.
CalculateUnified(points_to_process, data_fan_df_full) ==
    /\ out = None
    /\ out' = Computed("calculate_unified_efficiencies", points_to_process,
                       data_fan_df_full,
                       calculate_unified_efficiencies(table, data_fan_df_full, calib,
                                                      points_to_process, points_to_process))
    /\ UNCHANGED <<table, calib, notRun>>

NextRun ==
    \/ \E p \in PointsArgs : CalculateSimple(p)
    \/ \E p \in PointsArgs : CalculateSingle(p)
    \/ \E p \in PointsArgs, fan \in FanTables \cup {table, Missing} : CalculateUnified(p, fan)

(***************************************************************************)
(* factor_calculator.calculate_factor_experiment: the single-run           *)
(* computation on the file of each level, and the trend statistics of the  *)
(* levels that returned a result.                                          *)
(***************************************************************************)
\* One element of experiment_data; label is Missing when the dict has none.
Exp(factor_value, file_path, label, params) ==
    [factor_value |-> factor_value, file_path |-> file_path, label |-> label,
     params |-> params]

label_of_default(exp) == [factor_equals |-> exp.factor_value]

\* exp.get("label", f"Factor={factor_value}")
label_of(exp) ==
    IF exp.label = Missing THEN [factor_equals |-> exp.factor_value] ELSE exp.label

\* The for loop: the levels whose calculate_single_efficiency returned a
\* result, in input order, each with its result.
RECURSIVE successful_levels(_)
successful_levels(data) ==
    IF data = << >> THEN << >>
    ELSE (IF calculate_single_efficiency(Head(data).file_path, Head(data).params, None) # None
          THEN << [exp |-> Head(data),
                   result |-> calculate_single_efficiency(Head(data).file_path,
                                                          Head(data).params, None)] >>
          ELSE << >>) \o successful_levels(Tail(data))

\* np.argmax: the first position of the maximum.
argmax(y) == CHOOSE k \in 1..Len(y) : y[k] = max(y) /\ \A j \in 1..(k - 1) : y[j] # max(y)

\* np.ptp: max - min.
ptp(y) == RSub(MaxSeq(y), MinSeq(y))

\* +inf or -inf of a float division by zero.
Inf(sign) == [inf |-> sign]

\* x / y of numpy floats: 0 / 0 is nan and x / 0 is +-inf (with a warning,
\* without an exception).
np_divide(x, y) ==
    IF y # RZero THEN RDiv(x, y)
    ELSE IF x = RZero THEN NaN
    ELSE Inf(IF RGt(x, RZero) THEN 1 ELSE -1)

\* v * c of a float v and a positive number c.
np_times(v, c) == IF v = NaN \/ "inf" \in DOMAIN v THEN v ELSE RMul(v, c)

\* sum of x[k] * y[k]
dot(x, y) == SumSeq([k \in 1..Len(x) |-> RMul(x[k], y[k])])

\* np.polyfit(x, y, 1) for x with at least two distinct values: the
\* least-squares line, coefficients highest degree first.
polyfit1(x, y) ==
    LET n == R(Len(x))
        slope == RDiv(RSub(RMul(n, dot(x, y)), RMul(SumSeq(x), SumSeq(y))),
                      RSub(RMul(n, dot(x, x)), RMul(SumSeq(x), SumSeq(x))))
    IN  << slope, RDiv(RSub(SumSeq(y), RMul(slope, SumSeq(x))), n) >>

\* results["trend_analysis"] of the levels that succeeded.
trend_analysis(factor_array, eff_array) ==
    IF Len(factor_array) >= 2
    THEN [linear_slope |-> polyfit1(factor_array, eff_array)[1],
          linear_intercept |-> polyfit1(factor_array, eff_array)[2],
          optimal_factor |-> factor_array[argmax(eff_array)],
          optimal_efficiency |-> eff_array[argmax(eff_array)],
          efficiency_range |-> ptp(eff_array),
          relative_change |-> np_times(np_divide(ptp(eff_array), mean(eff_array)), R(100))]
    ELSE EmptyDict

\* The dict the function returns, of the levels that succeeded.
factor_results_of(levels) ==
    [factor_values |-> [k \in 1..Len(levels) |-> R(levels[k].exp.factor_value)],
     efficiencies |-> [k \in 1..Len(levels) |-> levels[k].result.efficiency],
     labels |-> [k \in 1..Len(levels) |-> label_of(levels[k].exp)],
     avg_powers |-> [k \in 1..Len(levels) |-> levels[k].result.avg_output_power],
     trend_analysis |->
         trend_analysis([k \in 1..Len(levels) |-> R(levels[k].exp.factor_value)],
                        [k \in 1..Len(levels) |-> levels[k].result.efficiency])]

calculate_factor_experiment(data) == factor_results_of(successful_levels(data))

\* The files of the levels of a factor experiment: two valid rows of a high
\* and of a lower output, one valid row of two, and no file.
FactorFiles ==
    {Table(3, << Row(R(3), Unparseable, Unparseable), Row(R(3), Unparseable, Unparseable) >>),
     Table(3, << Row(R(1), Unparseable, Unparseable), Row(R(3), Unparseable, Unparseable) >>),
     Table(3, << Row(Unparseable, Unparseable, Unparseable),
                 Row(R(3), Unparseable, Unparseable) >>),
     Missing}

\* The labels a caller gives a level, or none.
FactorLabels == {Missing, PyStr("level")}

\* The calibration the caller passes as params of each level.
FactorParams == Calibration(1, 0, 2, 12, 1, 100)

\* experiment_data as callers build it: level j (1-based) has the factor
\* value 10 * j, a file and possibly a label.
ExperimentData ==
    UNION {{[j \in 1..n |-> Exp(10 * j, choice[j][1], choice[j][2], FactorParams)] :
                choice \in [1..n -> FactorFiles \X FactorLabels]} : n \in 0..MaxLevels}

FactorIdle ==
    /\ experiment_data = << >>
    /\ factor_results = NotCalled

FactorInit ==
    /\ experiment_data \in ExperimentData
    /\ factor_results = NotCalled

CalculateFactorExperiment ==
    /\ factor_results = NotCalled
    /\ factor_results' = calculate_factor_experiment(experiment_data)
    /\ UNCHANGED <<experiment_data, notFactor>>

NextFactor == CalculateFactorExperiment

(***************************************************************************)
(* BatchExperimentAnalyzer.run_batch_experiments: one step per level of    *)
(* the configuration.  The files a level's paths name are an input of the  *)
(* step that asks os.path.exists about them.                               *)
(***************************************************************************)
\* What the files of a level hold: a two-row acquisition, or no rows.
GoodTable == Table(8, << Row(R(3), R(3), R(3)), Row(R(1), R(0), R(3)) >>)
EmptyTable == Table(8, << >>)
\* Two rows of which one has a numeric AIN2.
SparseTable == Table(8, << Row(R(3), R(3), R(3)), Row(Unparseable, R(3), R(3)) >>)

FilePair(zheng_file, fan_file) == [zheng |-> zheng_file, fan |-> fan_file]

FilePairs ==
    {FilePair(GoodTable, GoodTable), FilePair(Missing, GoodTable),
     FilePair(GoodTable, Missing), FilePair(EmptyTable, GoodTable),
     FilePair(SparseTable, GoodTable)}

\* In factor-exploration mode the one path of a level is its forward and its
\* reverse file.
SameFilePairs ==
    {FilePair(file, file) : file \in {GoodTable, Missing, EmptyTable, SparseTable}}

\* The files the paths of a level may name.
LevelFiles == IF is_factor_exploration_mode THEN SameFilePairs ELSE FilePairs

\* os.path.exists
exists(file) == file # Missing

\* How a step of the loop ends: with the next level ("loop"), with the
\* function's return, or with an exception leaving the function.
Step(ctl, res) == [pc |-> ctl, results |-> res]

break_loop(res) == Step("returned", res)

\* continue
continue_loop(res) == Step("loop", res)

\* The keyword arguments of calculate_unified_efficiencies taken from
\* params_from_config; params_from_config.get('drive_v', 0).
params_calibration(params) ==
    [reference_v |-> R(params.reference_v), initial_v |-> R(params.initial_v),
     r_load |-> R(params.r_load),
     drive_v |-> R(IF "drive_v" \in DOMAIN params THEN params.drive_v ELSE 0),
     power_input |-> R(params.power_input),
     sampling_freq |-> R(params.sampling_freq)]

\* The keys params_from_config[...] is subscripted with.
SubscriptedKeys == {"reference_v", "initial_v", "r_load", "power_input", "sampling_freq"}

simplified_result_theoretical(params_from_config, index, result) ==
    LET power == result.theoretical.zheng.plot_data.output_power
    IN  [experiment_params |-> params_from_config,
         experiment_index |-> index + 1,
         factor_exploration_mode |-> TRUE,
         efficiency |-> result.theoretical.finished_efficiency,
         plot_data |-> result.verification.zheng.plot_data,
         avg_output_power |-> IF Len(power) > 0 THEN mean(power) ELSE RZero,
         max_output_power |-> IF Len(power) > 0 THEN max(power) ELSE RZero]

\* The entry appended in factor-exploration mode.
simplified_result(params_from_config, index, result) ==
    LET power == result.verification.zheng.plot_data.power
    IN  [experiment_params |-> params_from_config,
         experiment_index |-> index + 1,
         factor_exploration_mode |-> TRUE,
         efficiency |-> result.verification.finished_efficiency,
         plot_data |-> result.verification.zheng.plot_data,
         avg_output_power |-> IF Len(power) > 0 THEN mean(power) ELSE RZero,
         max_output_power |-> IF Len(power) > 0 THEN max(power) ELSE RZero]

calibration_result_zero_based(params_from_config, index, result) ==
    [verification |-> result.verification,
     theoretical |-> result.theoretical,
     comparison |-> result.comparison,
     experiment_params |-> params_from_config,
     experiment_index |-> index]

\* The entry appended in dual-motor mode: the result itself, with two keys
\* added.
calibration_result(params_from_config, index, result) ==
    [verification |-> result.verification,
     theoretical |-> result.theoretical,
     comparison |-> result.comparison,
     experiment_params |-> params_from_config,
     experiment_index |-> index + 1]

\* "if result:" and the append that ends the body of the loop.
append_result(params_from_config, index, result, res) ==
    IF result # None
    THEN Step("loop",
              Append(res, IF is_factor_exploration_mode
                          THEN simplified_result(params_from_config, index, result)
                          ELSE calibration_result(params_from_config, index, result)))
    ELSE Step("loop", res)

\* The body of the loop for level index (0-based), the files of the level
\* being file_pair; points_to_process is left at its default None.  Both
\* modes make the same call, factor exploration with the one file as forward
\* and reverse run.
run_level(index, file_pair, res) ==
    LET params_from_config == get_experiment_params(index).value
        fan_file == IF is_factor_exploration_mode THEN file_pair.zheng ELSE file_pair.fan
    IN  IF ~is_factor_exploration_mode /\ fan_file_pattern = None
        THEN Step("returned", res)
        ELSE IF ~exists(file_pair.zheng) \/ ~exists(fan_file) THEN continue_loop(res)
        ELSE IF ~(SubscriptedKeys \subseteq DOMAIN params_from_config)
             THEN Step("KeyError", res)
        ELSE append_result(params_from_config, index,
                           calculate_unified_efficiencies(
                               file_pair.zheng, fan_file,
                               params_calibration(params_from_config), None, None),
                           res)


\* fan_file_pattern as callers pass it.
FanFilePatterns == {None, PyStr("fan_{index}.csv")}

BatchIdle ==
    /\ pc = "idle"
    /\ loop_i = 0
    /\ results = << >>
    /\ fan_file_pattern = None
    /\ files = << >>
    /\ comparison_df = NotCalled

RunBatchExperiments_keep(pattern) ==
    /\ pc \in {"idle", "done"}
    /\ is_factor_exploration_mode => pattern = None
    /\ pc' = "loop"
    /\ loop_i' = 0
    /\ fan_file_pattern' = pattern
    /\ files' = << >>
    /\ comparison_df' = NotCalled
    /\ UNCHANGED <<results, cfgVars, notBatch>>

\* The call: self.results = [] and the loop starts.  A factor-exploration
\* caller passes the one file pattern only.
RunBatchExperiments(pattern) ==
    /\ pc \in {"idle", "done"}
    /\ is_factor_exploration_mode => pattern = None
    /\ pc' = "loop"
    /\ loop_i' = 0
    /\ results' = << >>
    /\ fan_file_pattern' = pattern
    /\ files' = << >>
    /\ comparison_df' = NotCalled
    /\ UNCHANGED <<cfgVars, notBatch>>

\* The loop goes on with the next level, or the function is left.
Take(step) ==
    /\ pc' = step.pc
    /\ results' = step.results
    /\ loop_i' = IF step.pc = "loop" THEN loop_i + 1 ELSE loop_i

\* One iteration of "for i in range(len(self.config.variable_params))".
RunLevel(file_pair) ==
    /\ pc = "loop"
    /\ loop_i < Len(variable_params)
    /\ Take(run_level(loop_i, file_pair, results))
    /\ files' = Append(files, file_pair)
    /\ UNCHANGED <<fan_file_pattern, comparison_df, cfgVars, notBatch>>

\* The range is exhausted: the function returns.
BatchDone ==
    /\ pc = "loop"
    /\ loop_i = Len(variable_params)
    /\ pc' = "done"
    /\ UNCHANGED <<loop_i, results, fan_file_pattern, files, comparison_df, cfgVars,
                   notBatch>>

\* The row generate_comparison_table builds of the entry at position k
\* (1-based) of results, or the KeyError of a key the entry or its
\* parameters lack.  A column holds the number the code formats into it.
table_row(k) ==
    LET result == results[k]
        params == result.experiment_params
        var_params == variable_params[k]
        factor_keys ==
            IF exploration_type = PyStr("voltage") THEN {"drive_v", "power_input"}
            ELSE IF exploration_type = PyStr("resistance") THEN {"r_load", "power_input"}
            ELSE {"power_input"}
        factor_columns ==
            IF exploration_type \in {PyStr("voltage"), PyStr("resistance")}
            THEN [key \in factor_keys |-> params[key]]
            ELSE IF "magnetic_distance" \in DOMAIN var_params
            THEN [magnetic_distance |-> var_params.magnetic_distance,
                  power_input |-> params.power_input]
            ELSE [power_input |-> params.power_input]
        simple_mode == "simple_mode" \in DOMAIN result /\ result.simple_mode
    IN  IF ~(factor_keys \subseteq DOMAIN params) THEN Returned("table_row", k, "KeyError", None)
        ELSE IF simple_mode
        THEN Returned("table_row", k, "",
                      [experiment_index |-> result.experiment_index,
                       factor |-> factor_columns,
                       columns |-> << result.efficiency, result.avg_output_power,
                                      result.max_output_power >>])
        ELSE IF ~({"verification", "theoretical", "comparison"} \subseteq DOMAIN result)
        THEN Returned("table_row", k, "KeyError", None)
        ELSE Returned("table_row", k, "",
                      [experiment_index |-> result.experiment_index,
                       factor |-> factor_columns,
                       columns |-> << result.verification.zheng.efficiency,
                                      result.verification.fan.efficiency,
                                      result.verification.finished_efficiency,
                                      result.theoretical.zheng.efficiency,
                                      result.theoretical.fan.efficiency,
                                      result.theoretical.finished_efficiency,
                                      result.comparison.zheng_diff,
                                      result.comparison.fan_diff,
                                      result.comparison.finished_diff >>])

\* BatchExperimentAnalyzer.generate_comparison_table: None without results,
\* the exception of the first row that raises, or the table of the rows
\* (the Excel file is written from the same rows).
generate_comparison_table ==
    IF results = << >> THEN Returned("generate_comparison_table", 0, "", None)
    ELSE IF \E k \in 1..Len(results) : table_row(k).raised # ""
    THEN Returned("generate_comparison_table", 0, "KeyError", None)
    ELSE Returned("generate_comparison_table", 0, "",
                  [k \in 1..Len(results) |-> table_row(k).value])

\* The caller exports the table once the batch has returned.
GenerateComparisonTable ==
    /\ pc \in {"done", "returned"}
    /\ comparison_df = NotCalled
    /\ comparison_df' = generate_comparison_table
    /\ UNCHANGED <<pc, loop_i, results, fan_file_pattern, files, cfgVars, notBatch>>

params_object_shared(index) == "common_params"

\* The dict object get_experiment_params(index) returns: the new dict that
\* self.common_params.copy() creates in that call (the later update calls
\* store into this new dict; the values are numbers).
params_object(index) == <<"copy", index>>

\* The object experiment_params of the entry at position k (1-based) refers
\* to: params_from_config, the dict the call for the entry's level returned.
entry_params_object(k) == params_object(results[k].experiment_index - 1)

\* The keys and values a caller stores into a returned mapping.
WrittenKeys == {"r_load"}
WrittenValues == {99}

\* dict[key] = value
setitem(d, key, value) == Update(d, [x \in {key} |-> value])

\* A caller's analyzer.results[k - 1]['experiment_params'][key] = value after
\* a batch: the store goes to the dict object and shows through every
\* reference to that object.
WriteExperimentParams(k, key, value) ==
    /\ pc = "done"
    /\ k \in 1..Len(results)
    /\ key \notin DOMAIN results[k].experiment_params
           \/ results[k].experiment_params[key] # value
    /\ results' = [j \in 1..Len(results) |->
                       IF entry_params_object(j) = entry_params_object(k)
                       THEN [results[j] EXCEPT
                                !.experiment_params = setitem(@, key, value)]
                       ELSE results[j]]
    /\ common_params' = IF entry_params_object(k) = "common_params"
                         THEN setitem(common_params, key, value)
                         ELSE common_params
    /\ UNCHANGED <<pc, loop_i, fan_file_pattern, files, comparison_df,
                   exploration_type, fixed_params, variable_params,
                   is_factor_exploration_mode, record, in_sync, ret, notBatch>>

\* A new configuration object is configured once, the caller may set
\* common_params['r_load'] (when no r_load was fixed), and the analyzer runs
\* batches on it.
NextBatch ==
    \/ \E levels \in Prefixes(VoltageSweep) \cup Prefixes(PowerSweep), r \in RLoadFixedArgs :
           pc = "idle" /\ exploration_type = None
               /\ configure_voltage_exploration(levels, r)
    \/ \E levels \in Prefixes(ResistanceSweep), d \in DriveVFixedArgs :
           pc = "idle" /\ exploration_type = None
               /\ configure_resistance_exploration(levels, d)
    \/ \E levels \in Prefixes(DistanceSweep), d \in DriveVFixedArgs, r \in RLoadFixedArgs :
           pc = "idle" /\ exploration_type = None
               /\ configure_magnetic_distance_exploration(levels, d, r)
    \/ \E r_load \in CommonRLoadArgs :
           pc = "idle" /\ "r_load" \notin (DOMAIN common_params) \cup (DOMAIN fixed_params)
               /\ SetCommon(r_load)
    \/ \E pattern \in FanFilePatterns : RunBatchExperiments(pattern)
    \/ \E file_pair \in LevelFiles : RunLevel(file_pair)
    \/ BatchDone
    \/ GenerateComparisonTable

(***************************************************************************)
(* Specifications.                                                         *)
(***************************************************************************)
CombIdle ==
    /\ zheng_result = None
    /\ fan_result = None
    /\ combined = None

\* The configuration object, its persisted record and the calls made on it
\* (Next above).
Init == ConfigInit /\ CombIdle /\ RunIdle /\ BatchIdle /\ FactorIdle
Spec == Init /\ [][Next]_vars

\* The dual-polarity combiner applied to pairs of single-run results.
NextComb ==
    \/ CombineVerification
    \/ CompareDual
    \/ CombNext_Reset

InitComb ==
    /\ CombInit
    /\ ConfigInit
    /\ is_factor_exploration_mode = FALSE
    /\ RunIdle
    /\ BatchIdle
    /\ FactorIdle
SpecComb == InitComb /\ [][NextComb]_vars

\* The single-run computations applied to a file (NextRun above).
InitRun ==
    /\ RunInit
    /\ ConfigInit
    /\ is_factor_exploration_mode = FALSE
    /\ CombIdle
    /\ BatchIdle
    /\ FactorIdle
SpecRun == InitRun /\ [][NextRun]_vars

\* Batches run by the analyzer on a configuration (NextBatch above).
InitBatch == ConfigInit /\ CombIdle /\ RunIdle /\ BatchIdle /\ FactorIdle
SpecBatch == InitBatch /\ [][NextBatch]_vars

\* A factor experiment run on the files of its levels (NextFactor above).
InitFactor ==
    /\ FactorInit
    /\ ConfigInit
    /\ is_factor_exploration_mode = TRUE
    /\ CombIdle
    /\ RunIdle
    /\ BatchIdle
SpecFactor == InitFactor /\ [][NextFactor]_vars

\* The caller replaces its configuration by the one load_config returned
\* (self.batch_config = ExperimentConfig.load_config(file_path)); the analyzer
\* then runs on the loaded object.
UseLoadedConfig ==
    /\ pc = "idle"
    /\ ret.op = "load_config" /\ ret.raised = ""
    /\ << exploration_type, fixed_params, variable_params, common_params,
          is_factor_exploration_mode >>
           # << ret.value.exploration_type, ret.value.fixed_params,
                ret.value.variable_params, ret.value.common_params,
                ret.value.is_factor_exploration_mode >>
    /\ exploration_type' = ret.value.exploration_type
    /\ fixed_params' = ret.value.fixed_params
    /\ variable_params' = ret.value.variable_params
    /\ common_params' = ret.value.common_params
    /\ is_factor_exploration_mode' = ret.value.is_factor_exploration_mode
    /\ UNCHANGED <<record, in_sync, ret, notCfg>>

\* A factor-exploration configuration is configured, saved and loaded
\* back, and batches are run on the configuration in use.
NextReload ==
    \/ NextBatch
    \/ pc = "idle" /\ exploration_type # None /\ ~in_sync /\ save_config
    \/ pc = "idle" /\ in_sync /\ ret.op # "load_config" /\ LoadConfig({})
    \/ UseLoadedConfig

InitReload == InitBatch /\ is_factor_exploration_mode = TRUE
SpecReload == InitReload /\ [][NextReload]_vars

\* The batches of a caller that also stores into the parameter mappings of
\* the entries.
NextBatchWrite ==
    \/ NextBatch
    \/ \E k \in 1..MaxLevels, key \in WrittenKeys, value \in WrittenValues :
           WriteExperimentParams(k, key, value)

SpecBatchWrite == InitBatch /\ [][NextBatchWrite]_vars

\* A call of run_batch_experiments runs on: the interpreter executes the next
\* iteration of its loop, and returns when the range is exhausted.
SpecBatchLive ==
    /\ SpecBatch
    /\ WF_vars(\E file_pair \in LevelFiles : RunLevel(file_pair))
    /\ WF_vars(BatchDone)

(***************************************************************************)
(* Properties of ExperimentConfig (specification Spec).                    *)
(***************************************************************************)
RequiredFields ==
    {"exploration_type", "fixed_params", "variable_params", "common_params"}

GotParams == ret.op = "get_experiment_params"
Loaded == ret.op = "load_config"

\* C1: for an index i with 0 <= i < len(variable_params), get_experiment_params(i)
\* returns a mapping whose keys are those of common_params, fixed_params and
\* variable_params[i] together, each key's value taken from variable_params[i]
\* if it is there, else from fixed_params, else from common_params.
C1_LayeredParams ==
    (GotParams /\ ret.arg >= 0 /\ ret.arg < Len(variable_params)) =>
        LET level == variable_params[ret.arg + 1]
        IN  /\ ret.raised = ""
            /\ DOMAIN ret.value =
                   (DOMAIN common_params) \cup (DOMAIN fixed_params) \cup (DOMAIN level)
            /\ \A k \in DOMAIN ret.value :
                   ret.value[k] = IF k \in DOMAIN level THEN level[k]
                                  ELSE IF k \in DOMAIN fixed_params THEN fixed_params[k]
                                  ELSE common_params[k]

\* A call in range where the level overrides a different fixed value (drive_v)
\* and a fixed value overrides a different common one (r_load).
C1_Witness ==
    /\ GotParams /\ ret.arg >= 0 /\ ret.arg < Len(variable_params)
    /\ ret.raised = ""
    /\ LET level == variable_params[ret.arg + 1]
       IN  /\ "drive_v" \in (DOMAIN level) \cap (DOMAIN fixed_params)
           /\ level["drive_v"] # fixed_params["drive_v"]
           /\ "r_load" \in (DOMAIN fixed_params) \cap (DOMAIN common_params)
           /\ fixed_params["r_load"] # common_params["r_load"]
           /\ "r_load" \notin DOMAIN level

\* C2: for an index i >= len(variable_params), an empty variable_params included,
\* get_experiment_params(i) raises the out-of-range error and returns no mapping.
C2_IndexOutOfRange ==
    (GotParams /\ ret.arg >= Len(variable_params)) =>
        (ret.raised = "IndexError" /\ ret.value = None)

\* The call with i = len(variable_params) on a configuration that has levels.
C2_Witness ==
    /\ GotParams
    /\ Len(variable_params) > 0
    /\ ret.arg = Len(variable_params)
    /\ ret.raised = "IndexError"

\* C3: load_config of the record save_config wrote for this configuration yields
\* a configuration with the same exploration_type, fixed_params, variable_params
\* and common_params.
C3_SaveLoadRoundTrip ==
    (Loaded /\ in_sync /\ ret.arg \cap RequiredFields = {}) =>
        /\ ret.raised = ""
        /\ ret.value.exploration_type = exploration_type
        /\ ret.value.fixed_params = fixed_params
        /\ ret.value.variable_params = variable_params
        /\ ret.value.common_params = common_params

\* A configured sweep of two or more levels, with fixed parameters and an added
\* common parameter, saved and loaded back.
C3_Witness ==
    /\ Loaded /\ in_sync /\ ret.arg = {}
    /\ ret.raised = ""
    /\ exploration_type # None
    /\ Len(variable_params) >= 2
    /\ fixed_params # EmptyDict
    /\ "r_load" \in DOMAIN common_params

\* C4: load_config fails, and yields no configuration, for every record that
\* lacks at least one of the four required members, whichever it is; a record
\* that lacks only the timestamp is loaded.
C4_LoadRejectsMissingField ==
    (Loaded /\ record # None) =>
        /\ (ret.arg \cap RequiredFields # {}) => (ret.raised = "KeyError" /\ ret.value = None)
        /\ (ret.arg \cap RequiredFields = {}) => (ret.raised = "" /\ ret.value # None)

\* A record that lacks common_params only is rejected.
C4_Witness ==
    /\ Loaded /\ record # None
    /\ ret.arg = {"common_params"}
    /\ ret.raised = "KeyError"

(***************************************************************************)
(* Properties of the combiner (specification SpecComb).                    *)
(***************************************************************************)
Combined == combined # None
BothResults == zheng_result # None /\ fan_result # None

\* C5: the combination is commutative, combine(a, b) = combine(b, a), and
\* idempotent on non-negative inputs, combine(a, a) = a for a >= 0.
C5_CombinerCommutativeIdempotent ==
    Combined =>
        /\ combined.value =
               IF combined.by = "unified"
               THEN combine(fan_result.efficiency, zheng_result.efficiency)
               ELSE compare_dual_motor_efficiencies(fan_result, zheng_result)
        /\ (BothResults /\ zheng_result.efficiency = fan_result.efficiency
                /\ RGe(zheng_result.efficiency, RZero))
               => combined.value = Real(zheng_result.efficiency)

\* Both runs have the efficiency 3/2, and they were combined.
C5_Witness ==
    /\ Combined /\ BothResults
    /\ zheng_result.efficiency = Rat(3, 2)
    /\ fan_result.efficiency = Rat(3, 2)

CombinedMinusOneOrZeroWithFour ==
    /\ Combined /\ BothResults
    /\ zheng_result.efficiency \in {R(-1), R(0)}
    /\ fan_result.efficiency = R(4)

\* C6 as stated: combine(-1, 4) and combine(0, 4) are equal, and both are 2.0.
C6_AsStated ==
    CombinedMinusOneOrZeroWithFour => combined.value = Real(R(2))

\* C6, amended: a negative input is clamped to zero before combining, so
\* combine(-1, 4) and combine(0, 4) are equal, and both are 0.0.
C6_ClampedToZero ==
    CombinedMinusOneOrZeroWithFour => combined.value = Real(RZero)

\* The efficiencies -1 and 4 were combined.
C6_Witness ==
    /\ Combined /\ BothResults
    /\ zheng_result.efficiency = R(-1)
    /\ fan_result.efficiency = R(4)

(***************************************************************************)
(* Properties of the single-run computations (specification SpecRun).      *)
(***************************************************************************)
SimpleFn == "calculate_simple_efficiency"
SingleFn == "calculate_single_efficiency"
UnifiedFn == "calculate_unified_efficiencies"

\* A computation of fn has run and returned a result.
Ran(fn) == out # None /\ out.fn = fn /\ out.result # None

\* The rows the run read of the file and of the reverse-run file.
ReadTable == head(table, out.points)
ReadFan == head(out.fan, out.points)

\* A real of the form q^(1/k) is >= 0 / is 0.
RealNonNeg(x) == x.q.n >= 0
RealZero(x) == x.q.n = 0

\* C7: every efficiency a run returns is >= 0, and it is exactly 0 whenever
\* the input energy of that run and methodology is <= 0 (power_input *
\* duration for the verification method, the integral of drive_v * input
\* current for the theoretical one); a finished efficiency is 0 as soon as
\* one polarity's input energy is <= 0.
C7_EfficiencyNonNegative ==
    /\ \A fn \in {SimpleFn, SingleFn} :
           Ran(fn) =>
               /\ RGe(out.result.efficiency, RZero)
               /\ RLe(verification_locals(ReadTable, calib).input_energy, RZero)
                      => out.result.efficiency = RZero
    /\ Ran(UnifiedFn) =>
           LET ver == out.result.verification
               theo == out.result.theoretical
               ver_zheng_in == verification_locals(ReadTable, calib).input_energy
               ver_fan_in == verification_locals(ReadFan, calib).input_energy
               theo_zheng_in == theoretical_locals(ReadTable, calib).denominator
               theo_fan_in == theoretical_locals(ReadFan, calib).denominator
           IN  /\ \A e \in {ver.zheng.efficiency, ver.fan.efficiency,
                             ver.finished_efficiency, theo.zheng.efficiency,
                             theo.fan.efficiency, theo.finished_efficiency} :
                      RealNonNeg(e)
               /\ RLe(ver_zheng_in, RZero) =>
                      RealZero(ver.zheng.efficiency) /\ RealZero(ver.finished_efficiency)
               /\ RLe(ver_fan_in, RZero) =>
                      RealZero(ver.fan.efficiency) /\ RealZero(ver.finished_efficiency)
               /\ RLe(theo_zheng_in, RZero) =>
                      RealZero(theo.zheng.efficiency) /\ RealZero(theo.finished_efficiency)
               /\ RLe(theo_fan_in, RZero) =>
                      RealZero(theo.fan.efficiency) /\ RealZero(theo.finished_efficiency)

\* A run whose output energy is positive and whose input energy is negative
\* returned the efficiency 0.
C7_Witness ==
    /\ Ran(SimpleFn)
    /\ RGt(out.result.output_energy, RZero)
    /\ RLt(out.result.input_energy, RZero)
    /\ out.result.efficiency = RZero

\* All entries of a non-empty series are the same value.
Constant(series) == Len(series) >= 1 /\ \A k \in 1..Len(series) : series[k] = series[1]

\* The scenario: ten samples of 1 A, r_load 2.0, 100 Hz, power_input 1.0.
ScenarioRun ==
    /\ Ran(SimpleFn)
    /\ table = ScenarioTable
    /\ calib = Calibration(1, 0, 2, 12, 1, 100)
    /\ out.points = None

\* C8 as the specification states it: n valid samples of constant current c
\* give output energy c^2 * r_load * n / sampling_freq and input energy
\* power_input * n / sampling_freq; the scenario gives 0.2 J, 0.1 J and 2.0.
C8_AsStated ==
    /\ (Ran(SimpleFn) /\ Constant(out.result.plot_data.current)) =>
           LET c == out.result.plot_data.current[1]
               duration == RDiv(R(Len(out.result.plot_data.current)), calib.sampling_freq)
           IN  /\ out.result.output_energy = RMul(RMul(RMul(c, c), calib.r_load), duration)
               /\ out.result.input_energy = RMul(calib.power_input, duration)
    /\ ScenarioRun =>
           /\ out.result.output_energy = Rat(2, 10)
           /\ out.result.input_energy = Rat(1, 10)
           /\ out.result.efficiency = R(2)

\* C8, what the code computes: np.trapz integrates the constant power
\* c^2 * r_load from the first valid sample's time to the last one's, which
\* is (n - 1) / sampling_freq for n consecutive samples, while the input
\* energy is power_input * n / sampling_freq; the scenario gives 0.18 J,
\* 0.1 J and 1.8.
C8_TrapezoidOverSpan ==
    /\ (Ran(SimpleFn) /\ Constant(out.result.plot_data.current)) =>
           LET c == out.result.plot_data.current[1]
               time == out.result.plot_data.time
               n == Len(time)
           IN  /\ out.result.output_energy =
                      RMul(RMul(RMul(c, c), calib.r_load), RSub(time[n], time[1]))
               /\ out.result.input_energy =
                      RMul(calib.power_input, RDiv(R(n), calib.sampling_freq))
    /\ ScenarioRun =>
           /\ out.result.output_energy = Rat(18, 100)
           /\ out.result.input_energy = Rat(1, 10)
           /\ out.result.efficiency = Rat(18, 10)

C8_Witness == ScenarioRun /\ Len(out.result.plot_data.current) = 10

\* A run cut to its first N rows, 1 <= N <= M, of a table of M rows (the
\* files exist).
Truncated(fn) ==
    /\ out # None /\ out.fn = fn
    /\ out.points # None
    /\ table # Missing /\ out.fan # Missing
    /\ out.points.v >= 1 /\ out.points.v <= Len(table.rows)

\* The entries of the series of plot_data that stem from rows with index < N:
\* row j has the time j / sampling_freq.
KeepRowsBelow(plot_data, N) ==
    LET below == [k \in 1..Len(plot_data.time) |->
                     RLt(plot_data.time[k], RDiv(R(N), calib.sampling_freq))]
    IN  [series \in DOMAIN plot_data |-> masked(plot_data[series], below)]

\* The series a single run returned: none when it returned None.
PlotOf(result) ==
    IF result = None THEN DefaultVerification.plot_data ELSE result.plot_data

FullSimple == calculate_simple_efficiency(table, calib, None)
FullSingle == calculate_single_efficiency(table, calib, None)
FullUnified == calculate_unified_efficiencies(table, out.fan, calib, None, None)

\* The four per-polarity entries of a unified result.
Entries(result) ==
    << result.verification.zheng, result.verification.fan,
       result.theoretical.zheng, result.theoretical.fan >>

\* C9 as the specification states it: the series of the run cut to N rows
\* are the series of the full run restricted to the rows with index < N.
C9_AsStated ==
    /\ Truncated(SimpleFn) =>
           PlotOf(out.result) = KeepRowsBelow(PlotOf(FullSimple), out.points.v)
    /\ Truncated(SingleFn) =>
           PlotOf(out.result) = KeepRowsBelow(PlotOf(FullSingle), out.points.v)
    /\ Truncated(UnifiedFn) =>
           LET full == Entries(FullUnified)
           IN  \A e \in 1..4 :
                   Entries(out.result)[e].plot_data =
                       KeepRowsBelow(full[e].plot_data, out.points.v)

\* C9, amended: the equality holds whenever the first N rows hold at least
\* two valid rows (one for calculate_single_efficiency); with fewer valid
\* rows among them the cut run returns no series (None, or the empty arrays
\* of the unified result), whatever the full run returns.
C9_TruncationWithEnoughValidRows ==
    /\ Truncated(SimpleFn) =>
           LET kept == KeepRowsBelow(PlotOf(FullSimple), out.points.v)
               valid == MaskIndices(verification_locals(ReadTable, calib).valid_idx, 1)
           IN  IF Len(valid) >= 2
               THEN out.result # None /\ out.result.plot_data = kept
               ELSE out.result = None
    /\ Truncated(SingleFn) =>
           LET kept == KeepRowsBelow(PlotOf(FullSingle), out.points.v)
               valid == MaskIndices(verification_locals(ReadTable, calib).valid_idx, 1)
           IN  IF Len(valid) >= 1
               THEN out.result # None /\ out.result.plot_data = kept
               ELSE out.result = None
    /\ Truncated(UnifiedFn) =>
           /\ out.result # None
           /\ LET full == Entries(FullUnified)
              IN  \A e \in 1..4 :
                      LET read == IF e \in {1, 3} THEN ReadTable ELSE ReadFan
                          valid ==
                              IF e <= 2
                              THEN MaskIndices(verification_locals(read, calib).valid_idx, 1)
                              ELSE MaskIndices(theoretical_locals(read, calib).valid_idx, 1)
                          kept == KeepRowsBelow(full[e].plot_data, out.points.v)
                          got == Entries(out.result)[e].plot_data
                      IN  IF Len(valid) >= 2 /\ read.ncols > (IF e <= 2 THEN 2 ELSE 7)
                          THEN got = kept
                          ELSE \A series \in DOMAIN got : got[series] = EmptyArray

\* A run cut to two rows of a three-row table returned the two-entry series
\* the full run's three-entry series start with.
C9_Witness ==
    /\ Truncated(SimpleFn)
    /\ out.points.v = 2
    /\ Len(table.rows) = 3
    /\ out.result # None
    /\ Len(out.result.plot_data.time) = 2
    /\ Len(PlotOf(FullSimple).time) = 3

(***************************************************************************)
(* Properties of run_batch_experiments (specification SpecBatch).          *)
(***************************************************************************)
\* The files level l (1-based) needs exist: its file, and in dual-motor mode
\* the reverse-run file too.
FilesExist(l) ==
    /\ exists(files[l].zheng)
    /\ is_factor_exploration_mode \/ exists(files[l].fan)

\* What the computation of level l returns on the files of the level.
LevelResult(l) ==
    calculate_unified_efficiencies(
        files[l].zheng,
        IF is_factor_exploration_mode THEN files[l].zheng ELSE files[l].fan,
        params_calibration(get_experiment_params(l - 1).value), None, None)

\* The levels gone through whose files exist and whose computation returned
\* a result.
CompletedLevels == {l \in 1..Len(files) : FilesExist(l) /\ LevelResult(l) # None}

\* C10: a missing file does not stop the batch.  While the loop runs and when
\* it has ended, results holds exactly one entry for each level gone through
\* whose files exist and whose computation returned a result, and none for
\* any other level; the loop ends only after the last level; the function is
\* left earlier only in dual-motor mode without a reverse-run file pattern, or
\* by the KeyError of a level whose files exist and whose parameters lack a
\* key.
C10_MissingFileSkipped ==
    /\ pc \in {"loop", "done"} =>
           /\ Len(files) = loop_i
           /\ Len(results) = Cardinality(CompletedLevels)
           /\ \A l \in CompletedLevels :
                  \E k \in 1..Len(results) : results[k].experiment_index = l
    /\ pc = "done" => loop_i = Len(variable_params)
    /\ pc = "returned" => ~is_factor_exploration_mode /\ fan_file_pattern = None
    /\ pc = "KeyError" =>
           /\ FilesExist(Len(files))
           /\ ~(SubscriptedKeys \subseteq DOMAIN get_experiment_params(loop_i).value)

\* A batch over three levels has ended; the files of the second level were
\* missing, those of the first and third existed, and results holds the two
\* entries of levels 1 and 3.
C10_Witness ==
    /\ pc = "done"
    /\ Len(variable_params) = 3
    /\ FilesExist(1) /\ ~FilesExist(2) /\ FilesExist(3)
    /\ Len(results) = 2
    /\ results[1].experiment_index = 1
    /\ results[2].experiment_index = 3

(***************************************************************************)
(* Malformed input of the single-run computations (specification SpecRun). *)
(***************************************************************************)
\* The file is malformed for a run cut to points_to_process rows: it is
\* missing, empty after the cut, has fewer than 3 columns, or has no row
\* whose AIN2 is a number.
Malformed(file, points_to_process) ==
    \/ file = Missing
    \/ LET data_df == head(file, points_to_process)
       IN  \/ empty(data_df)
           \/ data_df.ncols < 3
           \/ \A j \in 1..Len(data_df.rows) : data_df.rows[j].ain2 = Unparseable

\* C11 as the specification states it: each single-run computation returns
\* None whenever its file is malformed, calculate_unified_efficiencies
\* whenever one of its two files is.
C11_AsStated ==
    /\ \A fn \in {SimpleFn, SingleFn} :
           (out # None /\ out.fn = fn /\ Malformed(table, out.points))
               => out.result = None
    /\ (out # None /\ out.fn = UnifiedFn
           /\ (Malformed(table, out.points) \/ Malformed(out.fan, out.points)))
               => out.result = None

\* C11, what the code does: calculate_simple_efficiency and
\* calculate_single_efficiency return None on every malformed file;
\* calculate_unified_efficiencies returns None exactly when a file is
\* missing or the forward table is empty after the cut, and otherwise
\* returns a result in which the verification entry of a malformed file is
\* the zero default.
C11_NoResultSignal ==
    /\ \A fn \in {SimpleFn, SingleFn} :
           (out # None /\ out.fn = fn /\ Malformed(table, out.points))
               => out.result = None
    /\ (out # None /\ out.fn = UnifiedFn) =>
           IF table = Missing \/ out.fan = Missing \/ empty(ReadTable)
           THEN out.result = None
           ELSE /\ out.result # None
                /\ Malformed(table, out.points) =>
                       /\ RealZero(out.result.verification.zheng.efficiency)
                       /\ out.result.verification.zheng.plot_data
                              = DefaultVerification.plot_data
                /\ Malformed(out.fan, out.points) =>
                       /\ RealZero(out.result.verification.fan.efficiency)
                       /\ out.result.verification.fan.plot_data
                              = DefaultVerification.plot_data

\* calculate_unified_efficiencies returned a result for a forward file of
\* two columns.
C11_Witness ==
    /\ Ran(UnifiedFn)
    /\ table.ncols = 2
    /\ Len(table.rows) >= 1
    /\ RealZero(out.result.verification.finished_efficiency)

(***************************************************************************)
(* Parameters absent from every layer (specification SpecBatch).           *)
(***************************************************************************)
\* The parameters the engine requires.
EngineKeys == SubscriptedKeys \cup {"drive_v"}

\* The levels of the configuration, as 0-based indices.
LevelIndices == 0..(Len(variable_params) - 1)

\* C12 as the specification states it: during a batch, for a level with an
\* engine parameter absent from all three layers get_experiment_params
\* itself raises, and no entry of results was computed with a parameter
\* its mapping lacks.
C12_AsStated ==
    pc # "idle" =>
        /\ \A index \in LevelIndices :
               get_experiment_params(index).raised = ""
                   => EngineKeys \subseteq DOMAIN get_experiment_params(index).value
        /\ \A k \in 1..Len(results) :
               EngineKeys \subseteq DOMAIN results[k].experiment_params

\* C12, what the code does: get_experiment_params raises for no level of
\* the configuration, whatever its mapping lacks; the KeyError comes from
\* run_batch_experiments subscripting the mapping, for a level whose files
\* exist; and a level without drive_v is computed with drive_v = 0, which
\* makes its theoretical efficiencies 0.
C12_KeyErrorAtUse ==
    pc # "idle" =>
        /\ \A index \in LevelIndices : get_experiment_params(index).raised = ""
        /\ pc = "KeyError" <=>
               /\ Len(files) = loop_i + 1
               /\ is_factor_exploration_mode \/ fan_file_pattern # None
               /\ FilesExist(Len(files))
               /\ ~(SubscriptedKeys \subseteq DOMAIN get_experiment_params(loop_i).value)
        /\ \A k \in 1..Len(results) :
               /\ SubscriptedKeys \subseteq DOMAIN results[k].experiment_params
               /\ ("drive_v" \notin DOMAIN results[k].experiment_params
                      /\ ~is_factor_exploration_mode) =>
                      /\ RealZero(results[k].theoretical.zheng.efficiency)
                      /\ RealZero(results[k].theoretical.fan.efficiency)

\* A dual-motor batch has ended with the entry of a level whose mapping has
\* no drive_v: its theoretical efficiency is 0.
C12_Witness ==
    /\ pc = "done"
    /\ ~is_factor_exploration_mode
    /\ Len(results) >= 1
    /\ "drive_v" \notin DOMAIN results[1].experiment_params
    /\ RealZero(results[1].theoretical.zheng.efficiency)

(***************************************************************************)
(* What a configure_* call leaves of the earlier ones (specification       *)
(* Spec).  ret holds the last call and its r_load_fixed / drive_v_fixed.   *)
(***************************************************************************)
ConfiguredVoltage == ret.op = "configure_voltage_exploration"
ConfiguredResistance == ret.op = "configure_resistance_exploration"
ConfiguredMagnetic == ret.op = "configure_magnetic_distance_exploration"

\* The fixed_params the call's arguments name: r_load when r_load_fixed is
\* given, on top of base.
WithRLoad(base, r_load_fixed) ==
    IF r_load_fixed # None THEN Update(base, [r_load |-> r_load_fixed.v]) ELSE base

\* C13 as the specification states it: after a configure_* call,
\* exploration_type, fixed_params and variable_params are what the
\* arguments of that call determine, with no key of an earlier call left in
\* fixed_params.
C13_AsStated ==
    /\ ConfiguredVoltage =>
           /\ exploration_type = PyStr("voltage")
           /\ fixed_params = WithRLoad(EmptyDict, ret.arg)
           /\ variable_params \in Prefixes(VoltageSweep)
    /\ ConfiguredResistance =>
           /\ exploration_type = PyStr("resistance")
           /\ fixed_params = [drive_v |-> ret.arg.v]
           /\ variable_params \in Prefixes(ResistanceSweep)
    /\ ConfiguredMagnetic =>
           /\ exploration_type = PyStr("magnetic_distance")
           /\ \E d \in DriveVFixedArgs :
                  fixed_params = WithRLoad([drive_v |-> d.v], ret.arg)
           /\ Len(variable_params) <= MaxLevels

\* C13, what the code does: configure_resistance_exploration and
\* configure_magnetic_distance_exploration replace fixed_params, while
\* configure_voltage_exploration only writes r_load into the fixed_params it
\* finds (when r_load_fixed is given), so that a drive_v or r_load of an
\* earlier call may still be there.
C13_VoltageKeepsFixedParams ==
    /\ ConfiguredVoltage =>
           /\ exploration_type = PyStr("voltage")
           /\ variable_params \in Prefixes(VoltageSweep)
           /\ ret.arg # None =>
                  ("r_load" \in DOMAIN fixed_params /\ fixed_params.r_load = ret.arg.v)
           /\ \E earlier \in {EmptyDict} \cup {WithRLoad([drive_v |-> d.v], r) :
                                   d \in DriveVFixedArgs, r \in RLoadFixedArgs}
                                \cup {WithRLoad(EmptyDict, r) : r \in RLoadFixedArgs} :
                  fixed_params = WithRLoad(earlier, ret.arg)
    /\ ConfiguredResistance =>
           /\ exploration_type = PyStr("resistance")
           /\ fixed_params = [drive_v |-> ret.arg.v]
           /\ variable_params \in Prefixes(ResistanceSweep)
    /\ ConfiguredMagnetic =>
           /\ exploration_type = PyStr("magnetic_distance")
           /\ \E d \in DriveVFixedArgs :
                  fixed_params = WithRLoad([drive_v |-> d.v], ret.arg)
           /\ Len(variable_params) <= MaxLevels

\* configure_voltage_exploration was called without r_load_fixed, and
\* fixed_params still holds the drive_v and r_load of an earlier call.
C13_Witness ==
    /\ ConfiguredVoltage
    /\ ret.arg = None
    /\ DOMAIN fixed_params = {"drive_v", "r_load"}

(***************************************************************************)
(* Order and termination of a batch (specification SpecBatchLive).         *)
(***************************************************************************)
\* The entries of results are in strictly increasing experiment_index order,
\* each of a level gone through, with the parameters of that level.
ResultsInLevelOrder ==
    \A k \in 1..Len(results) :
        LET index == results[k].experiment_index - 1
        IN  /\ index >= 0 /\ index < Len(files)
            /\ results[k].experiment_params = get_experiment_params(index).value
            /\ k > 1 => results[k - 1].experiment_index < results[k].experiment_index

\* A step of the running loop goes from level i to level i + 1 or leaves the
\* function at level i, and appends at most the entry of level i.
LevelByLevel ==
    pc = "loop" =>
        /\ loop_i <= Len(variable_params)
        /\ loop_i' = loop_i \/ (loop_i' = loop_i + 1 /\ pc' = "loop")
        /\ \/ results' = results
           \/ /\ Len(results') = Len(results) + 1
              /\ SubSeq(results', 1, Len(results)) = results
              /\ results'[Len(results')].experiment_index = loop_i + 1

\* C14: run_batch_experiments goes through the levels in increasing order,
\* each at most once, and always ends; in every reachable state the entries
\* of results are in strictly increasing experiment_index order, each with
\* the 1-based index and the get_experiment_params mapping of its level.
C14_OrderedAndTerminates ==
    /\ []ResultsInLevelOrder
    /\ [][LevelByLevel]_vars
    /\ (pc = "loop") ~> (pc \in {"done", "returned", "KeyError"})

\* A dual-motor batch over three levels has ended with the entries of
\* levels 1, 2 and 3.
C14_Witness ==
    /\ pc = "done"
    /\ ~is_factor_exploration_mode
    /\ Len(results) = 3
    /\ \A k \in 1..3 : results[k].experiment_index = k

(***************************************************************************)
(* The comparison table of a batch (specification SpecBatch).              *)
(***************************************************************************)
TableGenerated == comparison_df # NotCalled

\* C15 as the specification states it: generate_comparison_table yields a
\* table of one row per entry of results, in the order of the entries, and
\* no table only when results is empty.
C15_AsStated ==
    TableGenerated =>
        IF results = << >> THEN comparison_df.raised = "" /\ comparison_df.value = None
        ELSE /\ comparison_df.raised = ""
             /\ comparison_df.value # None
             /\ Len(comparison_df.value) = Len(results)
             /\ \A k \in 1..Len(results) :
                    comparison_df.value[k].experiment_index = results[k].experiment_index

\* C15, what the code does: the table has one row per entry only for the
\* entries of a dual-motor batch (and, for a voltage exploration, only when
\* every level has a drive_v); the entries of a factor-exploration batch
\* have neither 'simple_mode' nor 'verification', and the call raises
\* KeyError on the first of them.
C15_TableOfDualMotorBatch ==
    TableGenerated =>
        IF results = << >> THEN comparison_df.raised = "" /\ comparison_df.value = None
        ELSE IF is_factor_exploration_mode
                \/ (exploration_type = PyStr("voltage")
                       /\ \E k \in 1..Len(results) :
                              "drive_v" \notin DOMAIN results[k].experiment_params)
        THEN comparison_df.raised = "KeyError" /\ comparison_df.value = None
        ELSE /\ comparison_df.raised = ""
             /\ Len(comparison_df.value) = Len(results)
             /\ \A k \in 1..Len(results) :
                    comparison_df.value[k].experiment_index = results[k].experiment_index

\* A factor-exploration batch completed two levels, and
\* generate_comparison_table raised KeyError.
C15_Witness ==
    /\ TableGenerated
    /\ is_factor_exploration_mode
    /\ pc = "done"
    /\ Len(results) = 2
    /\ comparison_df.raised = "KeyError"

(***************************************************************************)
(* The finished efficiencies of a unified result (specification SpecRun).  *)
(***************************************************************************)
\* finished_efficiency ** 2 = max(0, zheng.efficiency) * max(0, fan.efficiency)
\* for the methodology's part of a unified result.
GeometricMean(part) ==
    /\ RootMul(part.finished_efficiency, part.finished_efficiency)
           = RootMul(RootMax0(part.zheng.efficiency), RootMax0(part.fan.efficiency))
    /\ (RealZero(part.zheng.efficiency) \/ RealZero(part.fan.efficiency))
           => RealZero(part.finished_efficiency)

\* C16: in every unified result, for the verification and for the
\* theoretical methodology, the finished efficiency is the geometric mean of
\* the two per-polarity efficiencies the result reports, clamped at zero, and
\* is 0 whenever one of them is 0.
C16_FinishedIsGeometricMean ==
    Ran(UnifiedFn) =>
        /\ GeometricMean(out.result.verification)
        /\ GeometricMean(out.result.theoretical)

\* A unified result whose four per-polarity efficiencies are positive, the
\* forward ones differing from the reverse ones.
C16_Witness ==
    /\ Ran(UnifiedFn)
    /\ ~RealZero(out.result.verification.finished_efficiency)
    /\ ~RealZero(out.result.theoretical.finished_efficiency)
    /\ out.result.verification.zheng.efficiency # out.result.verification.fan.efficiency
    /\ out.result.theoretical.zheng.efficiency # out.result.theoretical.fan.efficiency

(***************************************************************************)
(* The entries of a factor-exploration batch (specification SpecBatch).    *)
(***************************************************************************)
\* C17: in factor-exploration mode the forward and reverse verification
\* efficiencies of a level are equal, the efficiency of the level's entry is
\* that verification efficiency, and the entry's avg/max output power are
\* the mean/maximum of the forward verification power series, or 0 when the
\* series is empty.
C17_FactorEntryIsVerification ==
    is_factor_exploration_mode =>
        \A k \in 1..Len(results) :
            LET unified == LevelResult(results[k].experiment_index)
                power == unified.verification.zheng.plot_data.power
            IN  /\ unified.verification.zheng.efficiency
                       = unified.verification.fan.efficiency
                /\ results[k].efficiency = unified.verification.zheng.efficiency
                /\ IF power = EmptyArray
                   THEN /\ results[k].avg_output_power = RZero
                        /\ results[k].max_output_power = RZero
                   ELSE /\ results[k].avg_output_power = mean(power)
                        /\ results[k].max_output_power = max(power)
                        /\ \A j \in 1..Len(power) :
                               RLe(power[j], results[k].max_output_power)

\* A factor-exploration batch has ended with the entry of a level of
\* positive efficiency and the entry of a level whose power series is empty.
C17_Witness ==
    /\ is_factor_exploration_mode
    /\ pc = "done"
    /\ Len(results) = 2
    /\ ~RealZero(results[1].efficiency)
    /\ results[2].plot_data.power = EmptyArray
    /\ results[2].avg_output_power = RZero

(***************************************************************************)
(* The configuration during and after a batch (specification               *)
(* SpecBatchWrite).                                                        *)
(***************************************************************************)
\* A caller's store into the parameter mapping of an entry.
WroteParams == pc = "done" /\ pc' = "done" /\ results' # results

\* C18: the configuration is read-only during a batch.  No step of
\* run_batch_experiments (with the get_experiment_params call of each level)
\* and no store into a returned mapping changes exploration_type,
\* fixed_params, variable_params or common_params; the returned mapping is a
\* fresh copy: a store into the experiment_params of one entry changes that
\* key of that entry alone, no other entry, and not what
\* get_experiment_params returns for any level.
C18_ConfigReadOnlyFreshCopy ==
    /\ [][pc' # "idle" =>
              UNCHANGED <<exploration_type, fixed_params, variable_params,
                          common_params>>]_vars
    /\ [][WroteParams =>
              /\ Len(results') = Len(results)
              /\ Cardinality({k \in 1..Len(results) : results'[k] # results[k]}) = 1
              /\ \A k \in 1..Len(results) :
                     /\ [results'[k] EXCEPT !.experiment_params = 0]
                            = [results[k] EXCEPT !.experiment_params = 0]
                     /\ \A key \in DOMAIN results[k].experiment_params :
                            key \notin WrittenKeys =>
                                results'[k].experiment_params[key]
                                    = results[k].experiment_params[key]
              /\ \A index \in LevelIndices :
                     get_experiment_params(index)' = get_experiment_params(index)]_vars

\* After a batch of three completed levels a caller has stored r_load = 99
\* into the parameters of the second entry: the first and third entries and
\* the mappings get_experiment_params resolves for all three levels keep
\* their r_load.
C18_Witness ==
    /\ pc = "done"
    /\ Len(results) = 3
    /\ results[2].experiment_params["r_load"] = 99
    /\ results[1].experiment_params["r_load"] # 99
    /\ results[3].experiment_params["r_load"] # 99
    /\ \A index \in LevelIndices :
           /\ get_experiment_params(index).raised = ""
           /\ get_experiment_params(index).value["r_load"] # 99

(***************************************************************************)
(* Too few valid samples in calculate_unified_efficiencies (specification  *)
(* SpecRun).                                                               *)
(***************************************************************************)
Polarities == {"zheng", "fan"}
Methodologies == {"verification", "theoretical"}

\* A unified computation was called on two files that exist.
UnifiedOnFiles ==
    out # None /\ out.fn = UnifiedFn /\ table # Missing /\ out.fan # Missing

\* The rows a polarity's run read.
ReadOf(polarity) == IF polarity = "zheng" THEN ReadTable ELSE ReadFan

\* The rows of df that are valid aligned samples of a methodology: AIN2
\* parses (verification), AIN6 and AIN7 both parse (theoretical); none when
\* the table lacks the columns.
ValidRows(df, methodology) ==
    IF methodology = "verification"
    THEN {j \in 1..Len(df.rows) : df.ncols > 2 /\ df.rows[j].ain2 # Unparseable}
    ELSE {j \in 1..Len(df.rows) :
              df.ncols > 7 /\ df.rows[j].ain6 # Unparseable
                           /\ df.rows[j].ain7 # Unparseable}

FewSamples(polarity, methodology) ==
    Cardinality(ValidRows(ReadOf(polarity), methodology)) < 2

DefaultPlotData(methodology) ==
    IF methodology = "verification" THEN DefaultVerification.plot_data
    ELSE DefaultTheoretical.plot_data

\* The pair kept its default, and the finished efficiency and the deltas
\* are those of the zeroed value: the finished efficiency of the methodology
\* is 0 and the deltas are the absolute differences of the reported values.
KeptDefault(result, polarity, methodology) ==
    /\ RealZero(result[methodology][polarity].efficiency)
    /\ result[methodology][polarity].plot_data = DefaultPlotData(methodology)
    /\ RealZero(result[methodology].finished_efficiency)
    /\ result.comparison[IF polarity = "zheng" THEN "zheng_diff" ELSE "fan_diff"]
           = AbsDiff(result.theoretical[polarity].efficiency,
                     result.verification[polarity].efficiency)
    /\ result.comparison.finished_diff
           = AbsDiff(result.theoretical.finished_efficiency,
                     result.verification.finished_efficiency)

TimeSeries ==
    IF out = None \/ out.result = None THEN {}
    ELSE IF out.fn = UnifiedFn
    THEN {out.result[methodology][polarity].plot_data.time :
              polarity \in Polarities, methodology \in Methodologies}
    ELSE {out.result.plot_data.time}

\* k / sampling_freq
TimeAt(k) == RDiv(R(k), calib.sampling_freq)

\* The k-th (1-based) of the row numbers in S, in increasing order.
KthOf(S, k) == CHOOSE j \in S : Cardinality({i \in S : i < j}) = k - 1

\* The times of the valid rows of df: a row keeps the time of its 0-based
\* position in the table as read.
TimeOfRows(df, methodology) ==
    [k \in 1..Cardinality(ValidRows(df, methodology)) |->
        TimeAt(KthOf(ValidRows(df, methodology), k) - 1)]

\* C20 as the specification states it: the k-th element (k = 0, 1, ...) of
\* every time series is k / sampling_freq, also when rows were dropped
\* before it.
C20_AsStated ==
    \A time \in TimeSeries : \A k \in 1..Len(time) : time[k] = TimeAt(k - 1)

\* C20, what the code does: the time series is indexed over the rows as
\* read, before the filter.  Its k-th element is j / sampling_freq for the
\* 0-based position j of the k-th valid row in the table, which is
\* k / sampling_freq only when no row before it was dropped, and later
\* otherwise.
C20_TimeOfRowPosition ==
    /\ \A fn \in {SimpleFn, SingleFn} :
           Ran(fn) => out.result.plot_data.time = TimeOfRows(ReadTable, "verification")
    /\ Ran(UnifiedFn) =>
           \A polarity \in Polarities, methodology \in Methodologies :
               out.result[methodology][polarity].plot_data.time
                   = IF FewSamples(polarity, methodology) THEN EmptyArray
                     ELSE TimeOfRows(ReadOf(polarity), methodology)
    /\ \A time \in TimeSeries : \A k \in 1..Len(time) : RGe(time[k], TimeAt(k - 1))

\* A single run on a table whose first row has an unparseable AIN2 cell and
\* whose next two rows are valid: the series starts at 1 / sampling_freq.
C20_Witness ==
    /\ Ran(SimpleFn)
    /\ Len(ReadTable.rows) = 3
    /\ ValidRows(ReadTable, "verification") = {2, 3}
    /\ out.result.plot_data.time = << TimeAt(1), TimeAt(2) >>

(***************************************************************************)
(* The theoretical method of calculate_unified_efficiencies (specification *)
(* SpecRun).                                                               *)
(***************************************************************************)
\* (cell - initial_v) / reference_v of a numeric cell.
CurrentOf(cell) == RDiv(RSub(cell, calib.initial_v), calib.reference_v)

\* The rows of a polarity in which AIN6 and AIN7 both parse.
BothValid(polarity) == ValidRows(ReadOf(polarity), "theoretical")

TheoreticalSeries ==
    {"time", "output_current", "input_current", "output_power", "input_power"}

\* C21 as the specification states it: the five theoretical arrays of a
\* polarity have the length of the intersection of the rows whose output
\* and input channels both parse.
C21_AsStated ==
    Ran(UnifiedFn) =>
        \A polarity \in Polarities, series \in TheoreticalSeries :
            Len(out.result.theoretical[polarity].plot_data[series])
                = Cardinality(BothValid(polarity))

\* C21, what the code does: when two or more rows of a polarity have both
\* channels numeric, the five theoretical arrays hold one entry for each of
\* these rows and for no other row, in row order: the currents of the row's
\* AIN6 and AIN7 cells, output power = output current ** 2 * r_load, input
\* power = drive_v * input current; when fewer than two rows have both, the
\* five arrays are empty.
C21_IntersectionOfValidRows ==
    Ran(UnifiedFn) =>
        \A polarity \in Polarities :
            LET plot_data == out.result.theoretical[polarity].plot_data
                rows == ReadOf(polarity).rows
                both == BothValid(polarity)
            IN  IF Cardinality(both) < 2
                THEN \A series \in TheoreticalSeries : plot_data[series] = EmptyArray
                ELSE /\ \A series \in TheoreticalSeries :
                            Len(plot_data[series]) = Cardinality(both)
                     /\ \A k \in 1..Cardinality(both) :
                            LET row == rows[KthOf(both, k)]
                            IN  /\ plot_data.output_current[k] = CurrentOf(row.ain6)
                                /\ plot_data.input_current[k] = CurrentOf(row.ain7)
                                /\ plot_data.output_power[k]
                                       = RMul(RMul(CurrentOf(row.ain6), CurrentOf(row.ain6)),
                                              calib.r_load)
                                /\ plot_data.input_power[k]
                                       = RMul(calib.drive_v, CurrentOf(row.ain7))

\* A unified result of a forward table of three rows of which one has an
\* unparseable AIN7 cell only: the forward theoretical arrays have the two
\* entries of the other rows.
C21_Witness ==
    /\ Ran(UnifiedFn)
    /\ Len(ReadTable.rows) = 3
    /\ Cardinality(BothValid("zheng")) = 2
    /\ \E j \in 1..3 : /\ ReadTable.rows[j].ain6 # Unparseable
                         /\ ReadTable.rows[j].ain7 = Unparseable
    /\ Len(out.result.theoretical.zheng.plot_data.input_power) = 2

\* The integrated output and input energy of the theoretical method on the
\* rows of a polarity, and their quotient as the code forms it: 0 when the
\* input energy is not positive or fewer than two rows are valid.
TheoreticalEnergies(polarity) == theoretical_locals(ReadOf(polarity), calib)

EnergyRatio(polarity) ==
    IF FewSamples(polarity, "theoretical") THEN RZero
    ELSE IF RGt(TheoreticalEnergies(polarity).denominator, RZero)
    THEN RDiv(TheoreticalEnergies(polarity).numerator,
              TheoreticalEnergies(polarity).denominator)
    ELSE RZero

\* C22 as the specification states it: the theoretical efficiency a unified
\* result reports for a polarity is output energy / input energy when the
\* input energy is > 0, and 0 otherwise.
C22_AsStated ==
    Ran(UnifiedFn) =>
        \A polarity \in Polarities :
            out.result.theoretical[polarity].efficiency = Real(EnergyRatio(polarity))

\* C22, what the code does: the reported theoretical efficiency is the
\* square root of that quotient (clamped at 0): its square is the quotient
\* when the quotient is positive, and it is 0 when the input energy is not
\* positive, the quotient is not positive, or fewer than two rows are valid.
C22_ReportedIsSquareRoot ==
    Ran(UnifiedFn) =>
        \A polarity \in Polarities :
            LET reported == out.result.theoretical[polarity].efficiency
            IN  /\ RealNonNeg(reported)
                /\ RootMul(reported, reported) = Real(Max0(EnergyRatio(polarity)))
                /\ RLe(EnergyRatio(polarity), RZero) => RealZero(reported)

\* A unified result whose forward energies have a positive quotient other
\* than 1: the reported forward theoretical efficiency differs from it.
C22_Witness ==
    /\ Ran(UnifiedFn)
    /\ RGt(EnergyRatio("zheng"), RZero)
    /\ EnergyRatio("zheng") # R(1)
    /\ out.result.theoretical.zheng.efficiency # Real(EnergyRatio("zheng"))
    /\ RootMul(out.result.theoretical.zheng.efficiency,
               out.result.theoretical.zheng.efficiency) = Real(EnergyRatio("zheng"))

(***************************************************************************)
(* The comparison deltas of a unified result (specification SpecRun).      *)
(***************************************************************************)
\* diff is |x - y|: for rationals the non-negative one of x - y and y - x,
\* otherwise the absolute value of the difference of the two roots.
IsAbsoluteDifference(diff, x, y) ==
    IF x.k = 1 /\ y.k = 1
    THEN /\ diff.k = 1
         /\ RGe(diff.q, RZero)
         /\ diff.q = RSub(x.q, y.q) \/ diff.q = RSub(y.q, x.q)
    ELSE diff = [abs_of_difference |-> << x, y >>]

\* C23: in every unified result the three comparison deltas are
\* non-negative and are the absolute differences of the theoretical and the
\* verification value the same result reports: per polarity the two
\* efficiencies, and the two finished efficiencies.
C23_DeltasAreAbsoluteDifferences ==
    Ran(UnifiedFn) =>
        LET ver == out.result.verification
            theo == out.result.theoretical
            comparison == out.result.comparison
        IN  /\ IsAbsoluteDifference(comparison.zheng_diff,
                                    theo.zheng.efficiency, ver.zheng.efficiency)
            /\ IsAbsoluteDifference(comparison.fan_diff,
                                    theo.fan.efficiency, ver.fan.efficiency)
            /\ IsAbsoluteDifference(comparison.finished_diff,
                                    theo.finished_efficiency, ver.finished_efficiency)

\* A unified result whose forward theoretical efficiency is a rational
\* smaller than its forward verification efficiency, with a positive delta.
C23_Witness ==
    /\ Ran(UnifiedFn)
    /\ out.result.theoretical.zheng.efficiency.k = 1
    /\ RLt(out.result.theoretical.zheng.efficiency.q,
           out.result.verification.zheng.efficiency.q)
    /\ ~RealZero(out.result.theoretical.zheng.efficiency)
    /\ RGt(out.result.comparison.zheng_diff.q, RZero)

(***************************************************************************)
(* calculate_factor_experiment (specification SpecFactor).                 *)
(***************************************************************************)
FactorCalled == factor_results # NotCalled

\* What the single-run computation returns for level j (1-based) of
\* experiment_data.
SingleOfLevel(j) ==
    calculate_single_efficiency(experiment_data[j].file_path, experiment_data[j].params, None)

\* The levels that returned a result.
Succeeded == {j \in 1..Len(experiment_data) : SingleOfLevel(j) # None}

\* The four lists have one entry for each level that returned a result, in
\* input order.
ListsOfSucceeded ==
    /\ \A list \in {"factor_values", "efficiencies", "labels", "avg_powers"} :
           Len(factor_results[list]) = Cardinality(Succeeded)
    /\ \A k \in 1..Cardinality(Succeeded) :
           LET exp == experiment_data[KthOf(Succeeded, k)]
               result == SingleOfLevel(KthOf(Succeeded, k))
           IN  /\ factor_results.factor_values[k] = R(exp.factor_value)
               /\ factor_results.efficiencies[k] = result.efficiency
               /\ factor_results.avg_powers[k] = result.avg_output_power
               /\ exp.label # Missing => factor_results.labels[k] = exp.label

\* trend_analysis is populated exactly when two or more levels succeeded.
TrendPopulated == DOMAIN factor_results.trend_analysis # {}

\* The optimum and the range of the efficiencies of the successful levels.
OptimumAndRange ==
    LET eff == factor_results.efficiencies
        trend == factor_results.trend_analysis
    IN  /\ \A k \in 1..Len(eff) : RLe(eff[k], trend.optimal_efficiency)
        /\ \E k \in 1..Len(eff) :
               /\ eff[k] = trend.optimal_efficiency
               /\ factor_results.factor_values[k] = trend.optimal_factor
        /\ \E a, b \in 1..Len(eff) :
               /\ \A k \in 1..Len(eff) : RLe(eff[b], eff[k]) /\ RLe(eff[k], eff[a])
               /\ trend.efficiency_range = RSub(eff[a], eff[b])

\* The mean of the efficiencies of the successful levels.
MeanEfficiency ==
    RDiv(SumSeq(factor_results.efficiencies), R(Len(factor_results.efficiencies)))

HasTable ==
    TableGenerated /\ comparison_df.raised = "" /\ results # << >>

\* The key of the swept variable of the exploration.
SweptKey ==
    IF exploration_type = PyStr("voltage") THEN "drive_v"
    ELSE IF exploration_type = PyStr("resistance") THEN "r_load"
    ELSE "magnetic_distance"

\* The parameters of the level a row names by its experiment index.
NamedLevel(row) == get_experiment_params(row.experiment_index - 1).value

\* C25 as the specification states it: in every row the swept-variable
\* value and the input power are those of the level the row's experiment
\* index names.
C25_AsStated ==
    HasTable =>
        \A k \in 1..Len(comparison_df.value) :
            LET row == comparison_df.value[k]
            IN  /\ row.factor[SweptKey] = NamedLevel(row)[SweptKey]
                /\ row.factor.power_input = NamedLevel(row).power_input

\* C25, what the code does: the input power of a row is that of the level
\* its experiment index names, and so is the drive voltage or load
\* resistance of a voltage or resistance exploration; the magnetic distance
\* of a row is that of the level at the row's position in the table, which
\* is the level the index names only when no earlier level was skipped.
C25_DistanceOfRowPosition ==
    HasTable =>
        \A k \in 1..Len(comparison_df.value) :
            LET row == comparison_df.value[k]
            IN  /\ row.factor.power_input = NamedLevel(row).power_input
                /\ row.experiment_index >= k
                /\ IF exploration_type \in {PyStr("voltage"), PyStr("resistance")}
                   THEN row.factor[SweptKey] = NamedLevel(row)[SweptKey]
                   ELSE /\ row.factor.magnetic_distance
                               = variable_params[k].magnetic_distance
                        /\ (row.factor.magnetic_distance
                                = NamedLevel(row).magnetic_distance)
                               <=> row.experiment_index = k

\* The table of a magnetic-distance batch of three levels whose first level
\* was skipped: its first row names level 2 and shows the distance of
\* level 1.
C25_Witness ==
    /\ HasTable
    /\ exploration_type = PyStr("magnetic_distance")
    /\ Len(variable_params) = 3
    /\ Len(comparison_df.value) = 2
    /\ comparison_df.value[1].experiment_index = 2
    /\ comparison_df.value[1].factor.magnetic_distance
           = variable_params[1].magnetic_distance
    /\ comparison_df.value[1].factor.magnetic_distance
           # variable_params[2].magnetic_distance

(***************************************************************************)
(* get_experiment_params on a negative index (specification Spec).         *)
(***************************************************************************)
\* common_params updated by fixed_params and then by the level.
Layered(level) == Update(Update(common_params, fixed_params), level)

\* C26 as the specification states it: a negative index is rejected and
\* returns no parameter set.
C26_AsStated ==
    (GotParams /\ ret.arg < 0) => (ret.raised # "" /\ ret.value = None)

\* C26, what the code does: only an index >= len(variable_params) is
\* rejected by the range check.  A negative index i with
\* -len(variable_params) <= i returns the parameters of level
\* len(variable_params) + i; a smaller one raises the IndexError of the list
\* subscript.
C26_NegativeIndexCountsFromEnd ==
    (GotParams /\ ret.arg < 0) =>
        IF ret.arg >= -Len(variable_params)
        THEN /\ ret.raised = ""
             /\ ret.value = Layered(variable_params[Len(variable_params) + ret.arg + 1])
        ELSE ret.raised = "IndexError" /\ ret.value = None

\* The call with index -1 on a configuration of two or more levels returned
\* the parameters of the last level, which differ from those of the first.
C26_Witness ==
    /\ GotParams
    /\ ret.arg = -1
    /\ Len(variable_params) >= 2
    /\ ret.raised = ""
    /\ ret.value = Layered(variable_params[Len(variable_params)])
    /\ ret.value # Layered(variable_params[1])

(***************************************************************************)
(* results over successive calls of run_batch_experiments (specification   *)
(* SpecBatch).                                                             *)
(***************************************************************************)
\* A call of run_batch_experiments starts.
CallStarts == pc # "loop" /\ pc' = "loop"

\* Every entry of results is the entry of a level the current call went
\* through and found the files of, and no level has two entries.
OnlyEntriesOfThisCall ==
    /\ \A k \in 1..Len(results) :
           /\ results[k].experiment_index \in 1..Len(files)
           /\ FilesExist(results[k].experiment_index)
    /\ \A j, k \in 1..Len(results) :
           results[j].experiment_index = results[k].experiment_index => j = k

\* C27: whatever calls of run_batch_experiments came before, a call starts
\* with results empty, so that results holds only entries of the most
\* recent call, each experiment_index at most once; a call in dual-motor
\* mode without a reverse-file pattern on a configuration with at least one
\* level is left at the first level with results empty.
C27_ResultsOfLastCallOnly ==
    /\ [][CallStarts => results' = << >>]_vars
    /\ []OnlyEntriesOfThisCall
    /\ [](pc = "returned" =>
              /\ ~is_factor_exploration_mode /\ fan_file_pattern = None
              /\ Len(variable_params) >= 1
              /\ results = << >>)
    /\ []((pc = "done" /\ ~is_factor_exploration_mode /\ fan_file_pattern = None)
              => Len(variable_params) = 0 /\ results = << >>)

\* A dual-motor call without a reverse-file pattern has returned at the
\* first of three levels, with results empty.
C27_Witness ==
    /\ pc = "returned"
    /\ ~is_factor_exploration_mode
    /\ fan_file_pattern = None
    /\ Len(variable_params) = 3
    /\ loop_i = 0
    /\ results = << >>

(***************************************************************************)
(* An empty table in calculate_unified_efficiencies (specification         *)
(* SpecRun).                                                               *)
(***************************************************************************)
\* The unified result of the same forward file and points with the forward
\* file as reverse file too.
WithItselfAsReverse ==
    calculate_unified_efficiencies(table, table, calib, out.points, out.points)

LoadedPutInUse ==
    <<exploration_type, fixed_params, variable_params, common_params,
      is_factor_exploration_mode>>'
        # <<exploration_type, fixed_params, variable_params, common_params,
            is_factor_exploration_mode>>
    /\ UNCHANGED ret /\ ret.op = "load_config"

\* C29: the batch-mode flag is not part of the persisted record, and
\* load_config always yields a configuration with
\* is_factor_exploration_mode = False, also when the saved configuration is
\* a factor-exploration one; the loaded configuration has the four saved
\* fields, and run_batch_experiments on it without a reverse-file pattern
\* takes the dual-motor branch and ends with no result entries.
C29_FlagNotPersisted ==
    /\ [](record # None => "is_factor_exploration_mode" \notin DOMAIN record)
    /\ []((Loaded /\ ret.raised = "") => ret.value.is_factor_exploration_mode = FALSE)
    /\ [][LoadedPutInUse =>
              /\ is_factor_exploration_mode /\ ~is_factor_exploration_mode'
              /\ UNCHANGED <<exploration_type, fixed_params, variable_params,
                             common_params>>]_vars
    /\ []((~is_factor_exploration_mode /\ fan_file_pattern = None) =>
              /\ results = << >>
              /\ pc \in {"idle", "loop", "returned", "done"}
              /\ pc = "returned" => Len(variable_params) >= 1 /\ loop_i = 0
              /\ pc = "done" => Len(variable_params) = 0)

\* A factor-exploration configuration of three levels was saved and loaded,
\* and the batch run on the loaded configuration without a reverse-file
\* pattern has returned at the first level without an entry.
C29_Witness ==
    /\ ret.op = "load_config" /\ ret.raised = ""
    /\ ~is_factor_exploration_mode
    /\ Len(variable_params) = 3
    /\ pc = "returned"
    /\ fan_file_pattern = None
    /\ results = << >>

(***************************************************************************)
(* The two implementations of the verification method on one file.         *)
(***************************************************************************)
VerificationRun ==
    out # None /\ out.fn \in {"calculate_simple_efficiency", "calculate_single_efficiency"}

\* What each implementation returns for the file and arguments of the run.
SimpleOfRun == calculate_simple_efficiency(table, calib, out.points)
SingleOfRun == calculate_single_efficiency(table, calib, out.points)

\* The number of rows read whose AIN2 parses (none for a missing file).
ValidSamples ==
    IF table = Missing THEN 0
    ELSE Cardinality(ValidRows(ReadTable, "verification"))

\* C30: calculate_single_efficiency and calculate_simple_efficiency return
\* the same efficiency, avg_output_power, max_output_power and duration for
\* every table with at least 2 numeric-valid AIN2 samples, both return None
\* when no sample is valid, and with exactly one valid sample
\* calculate_simple_efficiency returns None while
\* calculate_single_efficiency returns a result with efficiency 0.
C30_AgreeFromTwoSamples ==
    VerificationRun =>
        /\ out.result = IF out.fn = "calculate_simple_efficiency"
                        THEN SimpleOfRun ELSE SingleOfRun
        /\ ValidSamples >= 2 =>
               /\ SimpleOfRun # None /\ SingleOfRun # None
               /\ SimpleOfRun.efficiency = SingleOfRun.efficiency
               /\ SimpleOfRun.avg_output_power = SingleOfRun.avg_output_power
               /\ SimpleOfRun.max_output_power = SingleOfRun.max_output_power
               /\ SimpleOfRun.duration = SingleOfRun.duration
        /\ ValidSamples = 0 => SimpleOfRun = None /\ SingleOfRun = None
        /\ ValidSamples = 1 =>
               /\ SimpleOfRun = None
               /\ SingleOfRun # None
               /\ SingleOfRun.efficiency = RZero

\* calculate_single_efficiency has run on a file of at least two rows of
\* which exactly one has a numeric AIN2, and returned a result.
C30_Witness ==
    /\ out # None /\ out.fn = "calculate_single_efficiency"
    /\ table # Missing
    /\ Len(ReadTable.rows) >= 2
    /\ ValidSamples = 1
    /\ out.result # None
    /\ out.result.efficiency = RZero
    /\ SimpleOfRun = None

====
